---------------------------- MODULE Spec2Model ----------------------------
(***************************************************************************)
(* Model of the Lender Eligibility & Leverage Engine of Bridging Brain     *)
(* (src/main.py): the value parsers, the net-advance estimator, the        *)
(* knockout filter and the faceted refiner engine.                         *)
(*                                                                         *)
(* Text is a sequence of one-character strings ("GBP" stands for the pound *)
(* sign), so that replace / lower / substring / regular-expression search  *)
(* are computed the way the Python code computes them.  A float is an      *)
(* exact fraction [ok, n, d]; ok = FALSE is Python's None.                 *)
(***************************************************************************)
EXTENDS Integers, Sequences, FiniteSets, TLC

VARIABLES
    in_val,             \* parse_number: the cell handed to the parser
    out_parsed,          \* parse_number: what it returned
    in_lender,          \* check_net_ltv_shortfall: the lender record
    in_required_ltv,    \* check_net_ltv_shortfall: the LTV the borrower needs
    in_term,            \* check_net_ltv_shortfall: the deal's term
    out_net_check,      \* check_net_ltv_shortfall: what it returned
    in_lenders,         \* filter_lenders: the catalogue read by get_all_lenders
    in_essentials,      \* filter_lenders: the deal of the request
    out_filter,         \* filter_lenders: what apply_knockouts returned
    in_order,           \* get_refiner_options: the order the active set was iterated in
    out_options,        \* get_refiner_options: the response to the last request
    prev_options,       \* get_refiner_options: the response to the request before it
    pc,                 \* "call" before the function has run, "done" after, "serve" for the server
    clock,              \* check_rate_limit: the reading of datetime.now(), in ticks
    rate_limit_store,   \* check_rate_limit: session_id -> list of timestamps
    accepted,           \* check_rate_limit: the times of every call it has accepted, by session
    calls,              \* the number of requests served so far
    out_limit,          \* check_rate_limit: the session of the last call and what it returned
    in_chat,            \* chat: the last request and what its collaborators did
    conversations,      \* chat: the conversations table, session_id -> messages
    ai_calls,           \* chat: the number of calls of the AI service so far
    out_chat            \* chat: the response to the last request

parseVars == <<in_val, out_parsed>>
netVars == <<in_lender, in_required_ltv, in_term, out_net_check>>
filterVars == <<in_lenders, in_essentials, out_filter>>
refineVars == <<in_order, out_options, prev_options>>
rateVars == <<clock, rate_limit_store, accepted, calls, out_limit>>
chatVars == <<in_chat, conversations, ai_calls, out_chat>>
vars == <<in_val, out_parsed, in_lender, in_required_ltv, in_term, out_net_check,
          in_lenders, in_essentials, out_filter, in_order, out_options, prev_options, pc,
          clock, rate_limit_store, accepted, calls, out_limit,
          in_chat, conversations, ai_calls, out_chat>>

----------------------------------------------------------------------------
(* Bounds of the model *)

MaxLen == 3          \* longest generated cell text, in characters
MaxDigits == 8       \* most digits a generated cell expands to
MaxLenders == 2      \* most lenders in a catalogue

----------------------------------------------------------------------------
(* Python text primitives *)

NoneVal == <<"<None>">>                    \* Python None held in a cell
NoneStr == <<"N","o","n","e">>                         \* str(None)

str(v) == IF v = NoneVal THEN NoneStr ELSE v

Truthy(v) == v # NoneVal /\ v # <<>>       \* bool(v) of a cell: None and '' are falsy

OrEmpty(v) == IF Truthy(v) THEN v ELSE <<>>   \* (v or '')

Digits == {"0","1","2","3","4","5","6","7","8","9"}

DigitVal(c) ==
    CASE c = "0" -> 0 [] c = "1" -> 1 [] c = "2" -> 2 [] c = "3" -> 3
      [] c = "4" -> 4 [] c = "5" -> 5 [] c = "6" -> 6 [] c = "7" -> 7
      [] c = "8" -> 8 [] c = "9" -> 9

Whitespace == {" "}

UpperCase == {"A", "B", "C", "D", "E", "F", "G", "H", "I", "J", "K", "L", "M", "N", "O", "P", "Q", "R", "S", "T", "U", "V", "W", "X", "Y", "Z"}

LowerTable ==
    "A" :> "a" @@ "B" :> "b" @@ "C" :> "c" @@ "D" :> "d" @@ "E" :> "e" @@ "F" :> "f"
      @@ "G" :> "g" @@ "H" :> "h" @@ "I" :> "i" @@ "J" :> "j" @@ "K" :> "k" @@ "L" :> "l"
      @@ "M" :> "m" @@ "N" :> "n" @@ "O" :> "o" @@ "P" :> "p" @@ "Q" :> "q" @@ "R" :> "r"
      @@ "S" :> "s" @@ "T" :> "t" @@ "U" :> "u" @@ "V" :> "v" @@ "W" :> "w" @@ "X" :> "x"
      @@ "Y" :> "y" @@ "Z" :> "z"

LowerChar(c) == IF c \in UpperCase THEN LowerTable[c] ELSE c

lower(s) == <<>> \o [i \in 1..Len(s) |-> LowerChar(s[i])]

\* sub in s
Contains(sub, s) ==
    \E i \in 0..(Len(s) - Len(sub)) : \A j \in 1..Len(sub) : s[i + j] = sub[j]

StartsWith(s, p) == Len(s) >= Len(p) /\ \A j \in 1..Len(p) : s[j] = p[j]

\* s.replace(old, new), old non-empty: leftmost non-overlapping occurrences
RECURSIVE replace(_, _, _)
replace_from(s, old, new, i) ==
    SubSeq(s, 1, i - 1) \o new \o replace(SubSeq(s, i + Len(old), Len(s)), old, new)

replace(s, old, new) ==
    IF ~Contains(old, s) THEN s
    ELSE replace_from(s, old, new,
             CHOOSE i \in 1..Len(s) :
                 /\ StartsWith(SubSeq(s, i, Len(s)), old)
                 /\ \A j \in 1..(i - 1) : ~StartsWith(SubSeq(s, j, Len(s)), old))

RECURSIVE lstrip(_)
lstrip(s) == IF s # <<>> /\ Head(s) \in Whitespace THEN lstrip(Tail(s)) ELSE s

RECURSIVE rstrip(_)
rstrip(s) ==
    IF s # <<>> /\ s[Len(s)] \in Whitespace THEN rstrip(SubSeq(s, 1, Len(s) - 1)) ELSE s

strip(s) == rstrip(lstrip(s))

\* longest prefix of s made of characters of cls
RECURSIVE TakeWhile(_, _)
TakeWhile(s, cls) ==
    IF s # <<>> /\ Head(s) \in cls THEN <<Head(s)>> \o TakeWhile(Tail(s), cls) ELSE <<>>

\* re.search(r'[cls]+', s): the leftmost longest run, <<>> when there is no match
RECURSIVE SearchRun(_, _)
SearchRun(s, cls) ==
    IF s = <<>> THEN <<>>
    ELSE IF Head(s) \in cls THEN TakeWhile(s, cls) ELSE SearchRun(Tail(s), cls)

----------------------------------------------------------------------------
(* Python floats, as exact fractions *)

RECURSIVE GCD(_, _)
GCD(a, b) == IF b = 0 THEN a ELSE GCD(b, a % b)

Abs(x) == IF x < 0 THEN -x ELSE x

Rat(n, d) ==
    LET g == GCD(Abs(n), d)
    IN  [ok |-> TRUE, n |-> n \div g, d |-> d \div g]

NoneNum == [ok |-> FALSE, n |-> 0, d |-> 1]      \* None where a float is expected

Int2Rat(i) == Rat(i, 1)

RAdd(a, b) == Rat(a.n * b.d + b.n * a.d, a.d * b.d)
RSub(a, b) == Rat(a.n * b.d - b.n * a.d, a.d * b.d)
RMul(a, b) == Rat(a.n * b.n, a.d * b.d)
RDiv(a, b) == IF b.n > 0 THEN Rat(a.n * b.d, a.d * b.n) ELSE Rat(-(a.n * b.d), a.d * (-b.n))
RLt(a, b) == a.n * b.d < b.n * a.d
RGt(a, b) == RLt(b, a)
RLe(a, b) == ~RLt(b, a)
RGe(a, b) == ~RLt(a, b)

NumTruthy(x) == x.ok /\ x.n # 0                  \* bool(x) of an Optional[float]

RECURSIVE Pow10(_)
Pow10(k) == IF k = 0 THEN 1 ELSE 10 * Pow10(k - 1)

RECURSIVE DigitsToInt(_)
DigitsToInt(s) ==
    IF s = <<>> THEN 0 ELSE 10 * DigitsToInt(SubSeq(s, 1, Len(s) - 1)) + DigitVal(s[Len(s)])

\* str(k) of an integer k >= 0
DigitChar(k) == <<"0", "1", "2", "3", "4", "5", "6", "7", "8", "9">>[k + 1]

RECURSIVE IntToDigits(_)
IntToDigits(k) ==
    IF k < 10 THEN <<DigitChar(k)>> ELSE IntToDigits(k \div 10) \o <<DigitChar(k % 10)>>

CountOf(s, cls) == Cardinality({i \in 1..Len(s) : s[i] \in cls})

\* float(tok) for tok made of digits and dots: ValueError (ok = FALSE) unless
\* it holds at most one dot and at least one digit
float(tok) ==
    IF CountOf(tok, {"."}) > 1 \/ CountOf(tok, Digits) = 0 THEN NoneNum
    ELSE LET whole == TakeWhile(tok, Digits)
             frac  == SubSeq(tok, Len(whole) + 2, Len(tok))
         IN  Rat(DigitsToInt(whole \o frac), Pow10(Len(frac)))

----------------------------------------------------------------------------
(* Value parsers *)

parse_number(v) ==
    IF v = NoneVal THEN NoneNum
    ELSE LET t1 == replace(replace(replace(replace(str(v),
                       <<"GBP">>, <<>>), <<",">>, <<>>), <<"k">>, <<"0","0","0">>), <<"K">>, <<"0","0","0">>)
             t2 == replace(replace(t1, <<"m">>, <<"0","0","0","0","0","0">>), <<"M">>, <<"0","0","0","0","0","0">>)
             m  == SearchRun(t2, Digits \cup {"."})
         IN  IF m # <<>> THEN float(m) ELSE NoneNum

parse_ltv(v) ==
    IF v = NoneVal THEN NoneNum
    ELSE LET t == replace(replace(replace(lower(str(v)), <<"%">>, <<>>), <<"g","r","o","s","s">>, <<>>), <<"n","e","t">>, <<>>)
             m == SearchRun(t, Digits \cup {"."})
         IN  IF m # <<>> THEN float(m) ELSE NoneNum

\* the text matched by \d+\.?\d* at the start of s (s starts with a digit)
DecimalPrefix(s) ==
    LET whole == TakeWhile(s, Digits)
        rest  == SubSeq(s, Len(whole) + 1, Len(s))
    IN  IF rest # <<>> /\ Head(rest) = "."
        THEN whole \o <<".">> \o TakeWhile(Tail(rest), Digits)
        ELSE whole

RECURSIVE DropUntilDigit(_)
DropUntilDigit(s) ==
    IF s = <<>> \/ Head(s) \in Digits THEN s ELSE DropUntilDigit(Tail(s))

\* re.findall(r'(\d+\.?\d*)', s)
RECURSIVE findall_decimal(_)
findall_decimal(s) ==
    LET t == DropUntilDigit(s)
    IN  IF t = <<>> THEN <<>>
        ELSE LET tok == DecimalPrefix(t)
             IN  <<tok>> \o findall_decimal(SubSeq(t, Len(tok) + 1, Len(t)))

\* re.search(r'(\d+\.?\d*)', s): <<>> when there is no match
search_decimal(s) ==
    LET t == DropUntilDigit(s) IN IF t = <<>> THEN <<>> ELSE DecimalPrefix(t)

parse_proc_fee(proc_fee) ==
    IF ~Truthy(proc_fee) THEN Rat(2, 1)
    ELSE LET proc_str == lower(str(proc_fee))
         IN  IF Contains(<<"n","e","g","o","t","i","a","b","l","e">>, proc_str) \/ Contains(<<"n","o"," ","s","e","t">>, proc_str)
             THEN Rat(3, 2)
             ELSE LET m == search_decimal(proc_str)
                  IN  IF m # <<>> THEN float(m) ELSE Rat(2, 1)

parse_rate_band_midpoint(rate_band) ==
    IF ~Truthy(rate_band) THEN NoneNum
    ELSE LET rates == findall_decimal(lower(str(rate_band)))
         IN  IF Len(rates) >= 2 THEN RDiv(RAdd(float(rates[1]), float(rates[2])), Rat(2, 1))
             ELSE IF Len(rates) = 1 THEN float(rates[1])
             ELSE NoneNum

----------------------------------------------------------------------------
(* Lender records: a Python dict, as the sequence of its (column, cell) pairs *)

\* [col.lower() for col in lender.keys()]
lower_keys(lender) == [i \in 1..Len(lender) |-> lower(lender[i][1])]

HasKey(lender, col) == \E i \in 1..Len(lender) : lender[i][1] = col

\* lender.get(col, default)
get(lender, col, default) ==
    IF HasKey(lender, col)
    THEN lender[CHOOSE i \in 1..Len(lender) : lender[i][1] = col][2]
    ELSE default

\* the first of the matching positions, in the record's iteration order; 0 when none
\* (a for loop over lender.keys() that breaks at its first match)
FirstOf(hits) == IF hits = {} THEN 0 ELSE CHOOSE i \in hits : \A j \in hits : i <= j

Max(a, b) == IF a >= b THEN a ELSE b

----------------------------------------------------------------------------
(* Net advance estimator *)

\* lender's minimum months of interest, lines 252-262
lender_min_of(lender_min_months) ==
    IF ~Truthy(lender_min_months) THEN 3
    ELSE LET months_str == lower(str(lender_min_months))
         IN  IF Contains(<<"d","e","p","e","n","d","s">>, months_str) THEN 3
             ELSE LET m == SearchRun(months_str, Digits)
                  IN  IF m # <<>> THEN DigitsToInt(m) ELSE 3

\* monthly rate, lines 240-250
monthly_rate_of(rate_band) ==
    LET r == parse_rate_band_midpoint(rate_band) IN IF r.ok THEN r ELSE Rat(1, 1)

\* a faulty estimate: interest is retained for the loan term alone
estimate_net_for_term(gross_ltv, rate_band, proc_fee, loan_term_months, lender_min_months) ==
    IF ~NumTruthy(gross_ltv) THEN Rat(0, 1)
    ELSE LET total_deduction ==
                 RAdd(parse_proc_fee(proc_fee),
                      RMul(monthly_rate_of(rate_band), Int2Rat(loan_term_months)))
         IN  RMul(gross_ltv, RSub(Rat(1, 1), RDiv(total_deduction, Rat(100, 1))))

estimate_net_from_gross(gross_ltv, rate_band, proc_fee, loan_term_months, lender_min_months) ==
    IF ~NumTruthy(gross_ltv) THEN Rat(0, 1)
    ELSE LET fee_pct == parse_proc_fee(proc_fee)
             monthly_rate == monthly_rate_of(rate_band)
             lender_min == lender_min_of(lender_min_months)
             months_retained == Max(loan_term_months, lender_min)
             interest_deduction == RMul(monthly_rate, Int2Rat(months_retained))
             total_deduction == RAdd(fee_pct, interest_deduction)
         IN  RMul(gross_ltv, RSub(Rat(1, 1), RDiv(total_deduction, Rat(100, 1))))

col_name == <<"n","a","m","e">>
col_max_ltv_1st == <<"m","a","x","_","l","t","v","_","1","s","t","_","c","h","a","r","g","e","_","r","e","s","i","d","e","n","t","i","a","l","_","i","n","v","e","s","t","m","e","n","t","_","p","r","o","p","e","r","t","y">>
col_rate_band == <<"a","p","p","r","o","x","i","m","a","t","e","_","i","n","t","e","r","e","s","t","_","r","a","t","e","_","b","a","n","d">>
col_proc_fee == <<"t","y","p","i","c","a","l","_","p","r","o","c","_","f","e","e">>
col_min_months == <<"m","i","n","i","m","u","m","_","n","u","m","b","e","r","_","o","f","_","m","o","n","t","h","s","_","i","n","t","e","r","e","s","t">>

\* lines 306-314: the word 'net' in any LTV, advance or BMV cell
NetKeyword(lender) ==
    \E i \in 1..Len(lender) :
        /\ Contains(<<"n","e","t">>, lower(str(OrEmpty(lender[i][2]))))
        /\ LET col == lower(lender[i][1])
           IN  Contains(<<"l","t","v">>, col) \/ Contains(<<"a","d","v","a","n","c","e">>, col) \/ Contains(<<"b","m","v">>, col)

\* lines 316-328: the first BMV column publishes an LTV of 90 or more
BmvIsNet(lender) ==
    LET cols == lower_keys(lender)
        i == FirstOf({k \in 1..Len(lender) : Contains(<<"b","m","v">>, cols[k])})
    IN  /\ i # 0
        /\ LET bmv_val == lower(str(OrEmpty(lender[i][2])))
               bmv_ltv == parse_ltv(lender[i][2])
           IN  /\ bmv_val # <<>>
               /\ ~Contains(<<"n","/","a">>, bmv_val)
               /\ ~Contains(<<"n","o","t">>, bmv_val)
               /\ NumTruthy(bmv_ltv)
               /\ RGe(bmv_ltv, Rat(90, 1))

\* lines 330-339: the column the gross figure is read from
GrossCol(lender) ==
    LET cols == lower_keys(lender)
    IN  FirstOf({k \in 1..Len(lender) :
            /\ Contains(<<"m","a","x","_","l","t","v">>, cols[k])
            /\ Contains(<<"r","e","s","i","d","e","n","t","i","a","l">>, cols[k])
            /\ Contains(<<"1","s","t">>, cols[k])})

gross_ltv_of(lender) ==
    LET i == GrossCol(lender) IN IF i = 0 THEN NoneNum ELSE parse_ltv(lender[i][2])

is_net_of(lender) ==
    \/ NetKeyword(lender)
    \/ BmvIsNet(lender)
    \/ LET i == GrossCol(lender)
       IN  i # 0 /\ Contains(<<"n","e","t">>, lower(str(OrEmpty(lender[i][2]))))

\* a faulty estimate: fees and interest are deducted from a net figure too
net_estimate_always_deducts(lender, is_net, gross_ltv, loan_term_months) ==
    estimate_net_from_gross(gross_ltv,
        get(lender, col_rate_band, <<>>), get(lender, col_proc_fee, <<>>),
        loan_term_months, get(lender, col_min_months, <<>>))

\* lines 344-351: the internal estimate (only read when the gross figure is truthy)
net_estimate(lender, is_net, gross_ltv, loan_term_months) ==
    IF is_net THEN gross_ltv
    ELSE estimate_net_from_gross(gross_ltv,
             get(lender, col_rate_band, <<>>), get(lender, col_proc_fee, <<>>),
             loan_term_months, get(lender, col_min_months, <<>>))

estimated_net_of(lender, loan_term_months) ==
    net_estimate(lender, is_net_of(lender), gross_ltv_of(lender), loan_term_months)

\* line 356
shortfall_pct_of(required_net_ltv, estimated_net) ==
    IF required_net_ltv.n > 0
    THEN RMul(RDiv(RSub(required_net_ltv, estimated_net), required_net_ltv), Rat(100, 1))
    ELSE Rat(0, 1)

msg_insufficient(loan_term_months) ==
    <<"N","e","t"," ","a","d","v","a","n","c","e"," ","l","i","k","e","l","y"," ","i","n","s","u","f","f","i","c","i","e","n","t"," ","f","o","r"," ">> \o IntToDigits(loan_term_months)
        \o <<"m"," ","t","e","r","m"," ","a","f","t","e","r"," ","f","e","e","s"," ","&"," ","i","n","t","e","r","e","s","t"," ","r","e","t","e","n","t","i","o","n">>

msg_tight(loan_term_months) ==
    <<"N","e","t"," ","a","d","v","a","n","c","e"," ","m","a","y"," ","b","e"," ","t","i","g","h","t"," ","f","o","r"," ">> \o IntToDigits(loan_term_months)
        \o <<"m"," ","t","e","r","m"," ","-"," ","v","e","r","i","f","y"," ","w","i","t","h"," ","l","e","n","d","e","r">>

\* lines 295-301: the result before any rule has fired
NoNetCheck ==
    [passes |-> TRUE, warning |-> FALSE, comfortable |-> FALSE,
     message |-> NoneVal, is_net_lender |-> FALSE]

\* a faulty classification: the three tests are independent, not a chain
classify_unchained(result, shortfall_pct, loan_term_months) ==
    [result EXCEPT
        !.passes = ~RGt(shortfall_pct, Rat(5, 1)),
        !.warning = RGt(shortfall_pct, Rat(0, 1)),
        !.comfortable = RLt(shortfall_pct, Rat(-5, 1)),
        !.message = IF RGt(shortfall_pct, Rat(0, 1)) THEN msg_tight(loan_term_months)
                    ELSE NoneVal]

\* a faulty classification: the advisory message quotes the shortfall
classify_quoting_shortfall(result, shortfall_pct, loan_term_months) ==
    IF RGt(shortfall_pct, Rat(5, 1))
    THEN [result EXCEPT !.passes = FALSE,
                        !.message = msg_insufficient(loan_term_months) \o <<" ","b","y"," ">>
                                        \o IntToDigits(shortfall_pct.n \div shortfall_pct.d)]
    ELSE IF RGt(shortfall_pct, Rat(0, 1))
    THEN [result EXCEPT !.warning = TRUE, !.message = msg_tight(loan_term_months)]
    ELSE IF RLt(shortfall_pct, Rat(-5, 1))
    THEN [result EXCEPT !.comfortable = TRUE,
                        !.message = <<"h","e","a","d","r","o","o","m"," ">> \o IntToDigits((-shortfall_pct.n) \div shortfall_pct.d)]
    ELSE result

\* lines 358-368: the classification of a shortfall
classify_shortfall(result, shortfall_pct, loan_term_months) ==
    IF RGt(shortfall_pct, Rat(5, 1))
    THEN [result EXCEPT !.passes = FALSE, !.message = msg_insufficient(loan_term_months)]
    ELSE IF RGt(shortfall_pct, Rat(0, 1))
    THEN [result EXCEPT !.warning = TRUE, !.message = msg_tight(loan_term_months)]
    ELSE IF RLt(shortfall_pct, Rat(-5, 1))
    THEN [result EXCEPT !.comfortable = TRUE]
    ELSE result

\* lines 353-356: nothing is classified without an estimate
check_estimate(result, estimated_net, required_net_ltv, loan_term_months) ==
    IF ~NumTruthy(estimated_net) THEN result
    ELSE classify_shortfall(result, shortfall_pct_of(required_net_ltv, estimated_net),
                            loan_term_months)

\* lines 341-351: nothing is estimated without a gross figure
check_gross(lender, is_net, gross_ltv, required_net_ltv, loan_term_months) ==
    IF ~NumTruthy(gross_ltv) THEN [NoNetCheck EXCEPT !.is_net_lender = is_net]
    ELSE check_estimate([NoNetCheck EXCEPT !.is_net_lender = is_net],
                        net_estimate(lender, is_net, gross_ltv, loan_term_months),
                        required_net_ltv, loan_term_months)

check_net_ltv_shortfall(lender, required_net_ltv, borrower_deposit, loan_term_months, is_refurb) ==
    check_gross(lender, is_net_of(lender), gross_ltv_of(lender), required_net_ltv,
                loan_term_months)

----------------------------------------------------------------------------
(* Knockout filter *)

\* round(x) to the nearest integer, ties to even, for x >= 0
RoundHalfEven(x) ==
    LET q == x.n \div x.d
        r == x.n % x.d
    IN  IF 2 * r > x.d \/ (2 * r = x.d /\ q % 2 = 1) THEN q + 1 ELSE q

RECURSIVE GroupThousands(_)
GroupThousands(ds) ==
    IF Len(ds) <= 3 THEN ds
    ELSE GroupThousands(SubSeq(ds, 1, Len(ds) - 3)) \o <<",">> \o SubSeq(ds, Len(ds) - 2, Len(ds))

\* f"{x:,.0f}"
format_amount(x) == GroupThousands(IntToDigits(RoundHalfEven(x)))

col_minimum_loan_size == <<"m","i","n","i","m","u","m","_","l","o","a","n","_","s","i","z","e">>
col_maximum_loan_size == <<"m","a","x","i","m","u","m","_","l","o","a","n","_","s","i","z","e">>
col_regulated == <<"r","e","g","u","l","a","t","e","d","_","b","r","i","d","g","i","n","g","_","o","f","f","e","r","e","d">>
col_geographies == <<"w","h","i","c","h","_","g","e","o","g","r","a","p","h","i","e","s","_","d","o","n","_","t","_","y","o","u","_","l","e","n","d","_","i","n">>
col_refurb == <<"d","o","_","y","o","u","_","o","f","f","e","r","_","b","r","i","d","g","i","n","g","_","f","i","n","a","n","c","e","_","f","o","r","_","p","r","o","p","e","r","t","i","e","s","_","r","e","q","u","i","r","i","n","g","_","r","e","f","u","r","b","i","s","h","m","e","n","t","_","w","o","r","k","s">>
col_very_heavy == <<"d","o","_","y","o","u","_","f","u","n","d","_","v","e","r","y","_","h","e","a","v","y","_","w","o","r","k","s","_","o","v","e","r","_","1","0","0","_","c","o","s","t","_","o","f","_","w","o","r","k","s","_","t","o","_","v","a","l","u","e">>
col_heavy == <<"d","o","_","y","o","u","_","f","u","n","d","_","h","e","a","v","y","_","w","o","r","k","s","_","5","0","_","1","0","0","_","c","o","s","t","_","o","f","_","w","o","r","k","s","_","t","o","_","v","a","l","u","e">>
col_medium == <<"d","o","_","y","o","u","_","f","u","n","d","_","m","e","d","i","u","m","_","w","o","r","k","s","_","3","0","_","5","0","_","c","o","s","t","_","o","f","_","w","o","r","k","s","_","t","o","_","v","a","l","u","e">>

\* a faulty guard: only a zero market value is defaulted
ltv_of_nonzero(essentials) ==
    IF essentials.market_value.n # 0
    THEN RMul(RDiv(essentials.loan_amount, essentials.market_value), Rat(100, 1))
    ELSE Rat(0, 1)

\* line 386
ltv_of(essentials) ==
    IF essentials.market_value.n > 0
    THEN RMul(RDiv(essentials.loan_amount, essentials.market_value), Rat(100, 1))
    ELSE Rat(0, 1)

\* lines 388-391
works_ratio_of(essentials) ==
    IF essentials.is_refurb /\ NumTruthy(essentials.cost_of_works)
          /\ essentials.market_value.n > 0
    THEN RMul(RDiv(essentials.cost_of_works, essentials.market_value), Rat(100, 1))
    ELSE Rat(0, 1)

\* 1. loan amount knockout, lines 396-403
min_loan_reasons(lender, essentials) ==
    LET min_loan == parse_number(get(lender, col_minimum_loan_size, NoneVal))
    IN  IF NumTruthy(min_loan) /\ RLt(essentials.loan_amount, min_loan)
        THEN << <<"B","e","l","o","w"," ","m","i","n","i","m","u","m"," ","l","o","a","n"," ","(","GBP">> \o format_amount(min_loan) \o <<")">> >>
        ELSE <<>>

\* a faulty maximum rule: the comparison is the wrong way round
max_loan_reasons_reversed(lender, essentials) ==
    LET max_loan == parse_number(get(lender, col_maximum_loan_size, NoneVal))
    IN  IF NumTruthy(max_loan) /\ RLt(essentials.loan_amount, max_loan)
        THEN << <<"A","b","o","v","e"," ","m","a","x","i","m","u","m"," ","l","o","a","n"," ","(","GBP">> \o format_amount(max_loan) \o <<")">> >>
        ELSE <<>>

max_loan_reasons(lender, essentials) ==
    LET max_loan == parse_number(get(lender, col_maximum_loan_size, NoneVal))
    IN  IF NumTruthy(max_loan) /\ RGt(essentials.loan_amount, max_loan)
        THEN << <<"A","b","o","v","e"," ","m","a","x","i","m","u","m"," ","l","o","a","n"," ","(","GBP">> \o format_amount(max_loan) \o <<")">> >>
        ELSE <<>>

\* 2. regulated knockout, lines 405-409
regulated_reasons(lender, essentials) ==
    IF essentials.is_regulated
          /\ Contains(<<"n","o">>, lower(str(get(lender, col_regulated, <<>>))))
    THEN << <<"D","o","e","s","n","'","t"," ","o","f","f","e","r"," ","r","e","g","u","l","a","t","e","d"," ","b","r","i","d","g","i","n","g">> >>
    ELSE <<>>

\* 3. geography knockout, lines 411-414
geography_reasons(lender, essentials) ==
    LET geo_exclusions == lower(str(OrEmpty(get(lender, col_geographies, <<>>))))
    IN  IF Contains(lower(essentials.geography), geo_exclusions)
        THEN << <<"D","o","e","s","n","'","t"," ","l","e","n","d"," ","i","n"," ">> \o essentials.geography >>
        ELSE <<>>

\* 4. refurbishment knockout, lines 416-420
refurb_reasons(lender, essentials) ==
    IF essentials.is_refurb
          /\ Contains(<<"n","o">>, lower(str(get(lender, col_refurb, <<>>))))
    THEN << <<"D","o","e","s","n","'","t"," ","o","f","f","e","r"," ","r","e","f","u","r","b","i","s","h","m","e","n","t"," ","b","r","i","d","g","i","n","g">> >>
    ELSE <<>>

\* a faulty tier rule: every tier the ratio exceeds is consulted
works_tier_reasons_every_tier(lender, essentials) ==
    LET works_ratio == works_ratio_of(essentials)
        declines(col) == Contains(<<"n","o">>, lower(str(get(lender, col, <<>>))))
    IN  IF ~essentials.is_refurb THEN <<>>
        ELSE (IF RGt(works_ratio, Rat(100, 1)) /\ declines(col_very_heavy)
              THEN << <<"D","o","e","s","n","'","t"," ","f","u","n","d"," ","v","e","r","y"," ","h","e","a","v","y"," ","w","o","r","k","s"," ","(",">","1","0","0","%"," ","r","a","t","i","o",")">> >> ELSE <<>>)
             \o (IF RGt(works_ratio, Rat(50, 1)) /\ declines(col_heavy)
                 THEN << <<"D","o","e","s","n","'","t"," ","f","u","n","d"," ","h","e","a","v","y"," ","w","o","r","k","s"," ","(","5","0","-","1","0","0","%"," ","r","a","t","i","o",")">> >> ELSE <<>>)
             \o (IF RGt(works_ratio, Rat(30, 1)) /\ declines(col_medium)
                 THEN << <<"D","o","e","s","n","'","t"," ","f","u","n","d"," ","m","e","d","i","u","m"," ","w","o","r","k","s"," ","(","3","0","-","5","0","%"," ","r","a","t","i","o",")">> >> ELSE <<>>)

\* works ratio tier, lines 422-435
works_tier_reasons(lender, essentials) ==
    LET works_ratio == works_ratio_of(essentials)
        declines(col) == Contains(<<"n","o">>, lower(str(get(lender, col, <<>>))))
    IN  IF ~essentials.is_refurb \/ ~RGt(works_ratio, Rat(0, 1)) THEN <<>>
        ELSE IF RGt(works_ratio, Rat(100, 1))
             THEN IF declines(col_very_heavy)
                  THEN << <<"D","o","e","s","n","'","t"," ","f","u","n","d"," ","v","e","r","y"," ","h","e","a","v","y"," ","w","o","r","k","s"," ","(",">","1","0","0","%"," ","r","a","t","i","o",")">> >> ELSE <<>>
        ELSE IF RGt(works_ratio, Rat(50, 1))
             THEN IF declines(col_heavy)
                  THEN << <<"D","o","e","s","n","'","t"," ","f","u","n","d"," ","h","e","a","v","y"," ","w","o","r","k","s"," ","(","5","0","-","1","0","0","%"," ","r","a","t","i","o",")">> >> ELSE <<>>
        ELSE IF RGt(works_ratio, Rat(30, 1))
             THEN IF declines(col_medium)
                  THEN << <<"D","o","e","s","n","'","t"," ","f","u","n","d"," ","m","e","d","i","u","m"," ","w","o","r","k","s"," ","(","3","0","-","5","0","%"," ","r","a","t","i","o",")">> >> ELSE <<>>
        ELSE <<>>

\* lines 438-444
entity_knockouts(entity_type) ==
    CASE entity_type = <<"c","h","a","r","i","t","y">> -> <<"d","o","_","y","o","u","_","l","e","n","d","_","t","o","_","c","h","a","r","i","t","i","e","s">>
      [] entity_type = <<"t","r","u","s","t">> -> <<"d","o","_","y","o","u","_","l","e","n","d","_","t","o","_","t","r","u","s","t","s">>
      [] entity_type = <<"l","l","p">> -> <<"d","o","_","y","o","u","_","l","e","n","d","_","t","o","_","l","i","m","i","t","e","d","_","l","i","a","b","i","l","i","t","y","_","p","a","r","t","n","e","r","s","h","i","p","s">>
      [] entity_type = <<"s","i","p","p","_","s","s","a","s">> -> <<"c","a","n","_","y","o","u","_","l","e","n","d","_","t","o","_","s","i","p","p","s","_","s","s","a","s","_","p","e","n","s","i","o","n","s">>
      [] entity_type = <<"o","v","e","r","s","e","a","s">> -> <<"d","o","_","y","o","u","_","l","e","n","d","_","t","o","_","o","v","e","r","s","e","a","s","_","e","n","t","i","t","i","e","s">>
      [] OTHER -> <<>>

\* a faulty entity rule: any matching column that declines excludes
entity_reasons_any_match(lender, essentials) ==
    LET col == entity_knockouts(essentials.entity_type)
        needle == replace(col, <<"_">>, <<>>)
    IN  IF col # <<>>
           /\ \E k \in 1..Len(lender) :
                  /\ Contains(needle, lower(replace(lender[k][1], <<"_">>, <<>>)))
                  /\ Contains(<<"n","o">>, lower(str(lender[k][2])))
                  /\ ~Contains(<<"y","e","s">>, lower(str(lender[k][2])))
        THEN << <<"D","o","e","s","n","'","t"," ","l","e","n","d"," ","t","o"," ">> \o essentials.entity_type >>
        ELSE <<>>

\* 5. entity type knockout, lines 446-454
entity_reasons(lender, essentials) ==
    LET col == entity_knockouts(essentials.entity_type)
        needle == replace(col, <<"_">>, <<>>)
        i == IF col = <<>> THEN 0
             ELSE FirstOf({k \in 1..Len(lender) :
                      Contains(needle, lower(replace(lender[k][1], <<"_">>, <<>>)))})
    IN  IF col = <<>> \/ i = 0 THEN <<>>
        ELSE LET v == lower(str(lender[i][2]))
             IN  IF Contains(<<"n","o">>, v) /\ ~Contains(<<"y","e","s">>, v)
                 THEN << <<"D","o","e","s","n","'","t"," ","l","e","n","d"," ","t","o"," ">> \o essentials.entity_type >>
                 ELSE <<>>

get_ltv_column(property_type, is_regulated, charge_position) ==
    IF is_regulated THEN <<"m","a","x","_","l","t","v","_","r","e","g","u","l","a","t","e","d">>
    ELSE IF property_type = <<"l","a","n","d","_","w","i","t","h","_","p","p">> THEN <<"l","a","n","d","_","w","i","t","h","_","p","l","a","n","n","i","n","g">>
    ELSE IF property_type = <<"l","a","n","d","_","n","o","_","p","p">> THEN <<"l","a","n","d","_","w","i","t","h","o","u","t","_","p","l","a","n","n","i","n","g">>
    ELSE IF property_type = <<"c","o","m","m","e","r","c","i","a","l">> THEN <<"f","u","l","l","y","_","c","o","m","m","e","r","c","i","a","l">>
    ELSE IF property_type = <<"s","e","m","i","_","c","o","m","m","e","r","c","i","a","l">> THEN <<"s","e","m","i","_","c","o","m","m","e","r","c","i","a","l","_","m","i","x","e","d","_","u","s","e">>
    ELSE IF property_type = <<"r","e","s","i","d","e","n","t","i","a","l">>
         THEN CASE charge_position = <<"1","s","t">> -> <<"1","s","t","_","c","h","a","r","g","e","_","r","e","s","i","d","e","n","t","i","a","l">>
                [] charge_position = <<"2","n","d","_","s","u","p","p","o","r","t","i","n","g">> -> <<"s","u","p","p","o","r","t","i","n","g","_","2","n","d","_","c","h","a","r","g","e","_","r","e","s","i","d","e","n","t","i","a","l">>
                [] charge_position = <<"2","n","d","_","s","t","a","n","d","a","l","o","n","e">> -> <<"s","t","a","n","d","a","l","o","n","e","_","2","n","d","_","c","h","a","r","g","e","_","r","e","s","i">>
                [] charge_position = <<"e","q","u","i","t","a","b","l","e">> -> <<"e","q","u","i","t","a","b","l","e","_","c","h","a","r","g","e">>
                [] OTHER -> <<"1","s","t","_","c","h","a","r","g","e","_","r","e","s","i","d","e","n","t","i","a","l">>
    ELSE <<"1","s","t","_","c","h","a","r","g","e","_","r","e","s","i","d","e","n","t","i","a","l">>

\* lines 457-464: the column the deal's LTV cell is read from; 0 when none
LtvCol(lender, essentials) ==
    LET ltv_col == get_ltv_column(essentials.property_type, essentials.is_regulated,
                                  essentials.charge_position)
        needle == lower(ltv_col)
        cols == lower_keys(lender)
    IN  FirstOf({k \in 1..Len(lender) : Contains(needle, cols[k])})

max_ltv_of(lender, essentials) ==
    LET i == LtvCol(lender, essentials)
    IN  IF i = 0 THEN NoneNum ELSE parse_ltv(lender[i][2])

\* 6. property type / charge position availability, lines 466-480
availability_reasons(lender, essentials) ==
    LET i == LtvCol(lender, essentials)
        ltv_raw_value == IF i = 0 THEN NoneVal ELSE strip(lower(str(OrEmpty(lender[i][2]))))
    IN  IF Truthy(ltv_raw_value)
           /\ (\/ Contains(<<"n","o","t"," ","a","v","a","i","l","a","b","l","e">>, ltv_raw_value)
               \/ Contains(<<"n","/","a">>, ltv_raw_value)
               \/ ltv_raw_value = <<>>
               \/ Contains(<<"d","o","n","'","t"," ","l","e","n","d">>, ltv_raw_value)
               \/ Contains(<<"d","o","n","t"," ","l","e","n","d">>, ltv_raw_value))
        THEN IF essentials.property_type = <<"l","a","n","d","_","w","i","t","h","_","p","p">>
             THEN << <<"D","o","e","s","n","'","t"," ","l","e","n","d"," ","o","n"," ","l","a","n","d"," ","w","i","t","h"," ","p","l","a","n","n","i","n","g">> >>
             ELSE IF essentials.property_type = <<"l","a","n","d","_","n","o","_","p","p">>
             THEN << <<"D","o","e","s","n","'","t"," ","l","e","n","d"," ","o","n"," ","l","a","n","d"," ","w","i","t","h","o","u","t"," ","p","l","a","n","n","i","n","g">> >>
             ELSE IF essentials.charge_position = <<"2","n","d","_","s","t","a","n","d","a","l","o","n","e">>
             THEN << <<"D","o","e","s","n","'","t"," ","o","f","f","e","r"," ","s","t","a","n","d","a","l","o","n","e"," ","2","n","d"," ","c","h","a","r","g","e">> >>
             ELSE IF essentials.charge_position = <<"2","n","d","_","s","u","p","p","o","r","t","i","n","g">>
             THEN << <<"D","o","e","s","n","'","t"," ","o","f","f","e","r"," ","s","u","p","p","o","r","t","i","n","g"," ","2","n","d"," ","c","h","a","r","g","e">> >>
             ELSE IF essentials.charge_position = <<"e","q","u","i","t","a","b","l","e">>
             THEN << <<"D","o","e","s","n","'","t"," ","o","f","f","e","r"," ","e","q","u","i","t","a","b","l","e"," ","c","h","a","r","g","e","s">> >>
             ELSE << <<"D","o","e","s","n","'","t"," ","l","e","n","d"," ","o","n"," ">> \o replace(essentials.property_type, <<"_">>, <<" ">>) >>
        ELSE <<>>

\* a faulty rule chain: the rules after the first failing one are skipped
RECURSIVE first_failing(_)
first_failing(rules) ==
    IF rules = <<>> THEN <<>>
    ELSE IF Head(rules) # <<>> THEN Head(rules)
    ELSE first_failing(Tail(rules))

categorical_reasons_short_circuit(lender, essentials) ==
    first_failing(<<min_loan_reasons(lender, essentials), max_loan_reasons(lender, essentials),
                    regulated_reasons(lender, essentials), geography_reasons(lender, essentials),
                    refurb_reasons(lender, essentials), works_tier_reasons(lender, essentials),
                    entity_reasons(lender, essentials), availability_reasons(lender, essentials)>>)

\* rules 1-6 in the order the code appends their reasons
categorical_reasons(lender, essentials) ==
    min_loan_reasons(lender, essentials) \o max_loan_reasons(lender, essentials)
        \o regulated_reasons(lender, essentials) \o geography_reasons(lender, essentials)
        \o refurb_reasons(lender, essentials) \o works_tier_reasons(lender, essentials)
        \o entity_reasons(lender, essentials) \o availability_reasons(lender, essentials)

deposit_or_zero(essentials) ==
    IF NumTruthy(essentials.deposit_available) THEN essentials.deposit_available ELSE Rat(0, 1)

\* a faulty guard: the net LTV check also runs for a lender already excluded
runs_net_check_always(exclusion_reasons, max_ltv) == NumTruthy(max_ltv)

\* 7. whether the net LTV check runs, line 489
runs_net_check(exclusion_reasons, max_ltv) == exclusion_reasons = <<>> /\ NumTruthy(max_ltv)

\* a faulty call: a refurbishment deal is checked against no requirement
net_check_of_lenient_refurb(lender, essentials, exclusion_reasons, max_ltv) ==
    IF runs_net_check(exclusion_reasons, max_ltv)
    THEN check_net_ltv_shortfall(lender,
             IF essentials.is_refurb THEN Rat(0, 1) ELSE ltv_of(essentials),
             deposit_or_zero(essentials), essentials.loan_term_months, essentials.is_refurb)
    ELSE NoNetCheck

\* lines 489-496: the net LTV check of a lender no categorical rule excluded
net_check_of(lender, essentials, exclusion_reasons, max_ltv) ==
    IF runs_net_check(exclusion_reasons, max_ltv)
    THEN check_net_ltv_shortfall(lender, ltv_of(essentials), deposit_or_zero(essentials),
                                 essentials.loan_term_months, essentials.is_refurb)
    ELSE NoNetCheck

\* lines 498-520: the derived copy of the lender (its columns are kept under lender)
derived_copy(lender, essentials, categorical, max_ltv, checked, net_check_result) ==
    [lender |-> lender,
     exclusion_reasons |->
         IF checked /\ ~net_check_result.passes
         THEN categorical \o <<net_check_result.message>> ELSE categorical,
     calculated_ltv |-> ltv_of(essentials),
     works_ratio |-> works_ratio_of(essentials),
     max_gross_ltv |-> max_ltv,
     net_ltv_warning |->
         IF checked /\ net_check_result.passes /\ net_check_result.warning
               /\ Truthy(net_check_result.message)
         THEN net_check_result.message ELSE NoneVal,
     net_ltv_comfortable |->
         checked /\ net_check_result.passes /\ ~net_check_result.warning
             /\ net_check_result.comfortable,
     has_net_check_result |-> checked,
     net_check_result |-> net_check_result]

\* lines 482-520, given the outcome of rules 1-6
check_and_derive(lender, essentials, categorical, max_ltv) ==
    derived_copy(lender, essentials, categorical, max_ltv,
                 runs_net_check(categorical, max_ltv),
                 net_check_of(lender, essentials, categorical, max_ltv))

\* the body of the loop over lenders, lines 394-520
lender_result_of(lender, essentials) ==
    check_and_derive(lender, essentials, categorical_reasons(lender, essentials),
                     max_ltv_of(lender, essentials))

\* a faulty placement rule: only a failed net check excludes
is_excluded_by_net_check(lender_result) ==
    lender_result.has_net_check_result /\ ~lender_result.net_check_result.passes

\* lines 522-525: where the derived copy goes
is_excluded(lender_result) == lender_result.exclusion_reasons # <<>>

\* lines 522-525
place(lists, lender_result) ==
    IF is_excluded(lender_result)
    THEN [lists EXCEPT !.excluded = Append(@, lender_result)]
    ELSE [lists EXCEPT !.eligible = Append(@, lender_result)]

\* the loop of lines 393-525 over the first k lenders
RECURSIVE categorise(_, _, _)
categorise(lenders, essentials, k) ==
    IF k = 0 THEN [eligible |-> <<>>, excluded |-> <<>>]
    ELSE place(categorise(lenders, essentials, k - 1), lender_result_of(lenders[k], essentials))

----------------------------------------------------------------------------
(* Leverage and security hints *)

col_serviced == <<"s","e","r","v","i","c","e","d","_","i","n","t","e","r","e","s","t","_","a","l","l","o","w","e","d">>
col_day_1_advance == <<"m","a","x","i","m","u","m","_","d","a","y","_","1","_","a","d","v","a","n","c","e">>
col_day_1_ltv == <<"m","a","x","i","m","u","m","_","d","a","y","_","1","_","l","t","v">>

\* lines 575-585: excluded for a net-flavoured reason, then eligible but tight
is_net_reason(r) ==
    Contains(<<"n","e","t">>, lower(r)) \/ Contains(<<"i","n","s","u","f","f","i","c","i","e","n","t">>, lower(r)) \/ Contains(<<"t","i","g","h","t">>, lower(r))

\* a faulty collection: every lender of the response counts as a problem lender
problem_lenders_of_all(eligible, excluded) == excluded \o eligible

problem_lenders_of(eligible, excluded) ==
    SelectSeq(excluded, LAMBDA l :
        \E i \in 1..Len(l.exclusion_reasons) : is_net_reason(l.exclusion_reasons[i]))
    \o SelectSeq(eligible, LAMBDA l : Truthy(l.net_ltv_warning))

\* line 595 (and 689): the stored gross figure, else the residential 1st charge cell
hint_gross_ltv(l) ==
    IF NumTruthy(l.max_gross_ltv) THEN l.max_gross_ltv
    ELSE parse_ltv(get(l.lender, col_max_ltv_1st, <<>>))

hint_name(l) == get(l.lender, col_name, <<>>)

\* the estimate of line 603 (and 631, 692) from the lender's own rate, fee and minimum
hint_net(l, gross_ltv, loan_term_months) ==
    estimate_net_from_gross(gross_ltv, get(l.lender, col_rate_band, <<>>),
        get(l.lender, col_proc_fee, <<>>), loan_term_months, get(l.lender, col_min_months, <<>>))

\* lines 600-612: lever 1, the candidate terms in the order the code probes them
shorter_terms(loan_term) == SelectSeq(<<6, 9>>, LAMBDA t : t < loan_term)

\* line 604
term_works(l, shorter, ltv) ==
    NumTruthy(hint_net(l, hint_gross_ltv(l), shorter))
        /\ RGe(hint_net(l, hint_gross_ltv(l), shorter), ltv)

\* lines 605-611: the hint for the first candidate term that works, if any
first_term_hint(l, loan_term, cands, hit) ==
    IF loan_term > 6 /\ hit # 0
    THEN << [name |-> hint_name(l), current_term |-> loan_term, suggested_term |-> cands[hit],
             note |-> IntToDigits(cands[hit]) \o <<"m"," ","t","e","r","m"," ","c","o","u","l","d"," ","w","o","r","k">>] >>
    ELSE <<>>

probe_terms(l, loan_term, cands, ltv) ==
    first_term_hint(l, loan_term, cands,
                    FirstOf({i \in 1..Len(cands) : term_works(l, cands[i], ltv)}))

shorter_term_hint(l, essentials, ltv) ==
    probe_terms(l, essentials.loan_term_months, shorter_terms(essentials.loan_term_months), ltv)

\* lines 614-623: lever 2
serviced_interest_hint(l, essentials, ltv) ==
    IF /\ Contains(<<"y","e","s">>, lower(str(OrEmpty(get(l.lender, col_serviced, <<>>)))))
       /\ RGe(RMul(hint_gross_ltv(l),
                   RSub(Rat(1, 1),
                        RDiv(parse_proc_fee(get(l.lender, col_proc_fee, <<>>)), Rat(100, 1)))),
              ltv)
    THEN << [name |-> hint_name(l),
             note |-> <<"S","e","r","v","i","c","e","d"," ","i","n","t","e","r","e","s","t"," ","a","v","a","i","l","a","b","l","e"," ","-"," ","p","a","y"," ","m","o","n","t","h","l","y"," ","i","n","s","t","e","a","d"," ","o","f"," ","r","e","t","a","i","n","i","n","g">>] >>
    ELSE <<>>

\* line 626: the day-1 advance cell, else the day-1 LTV cell
day1_advance_of(l) ==
    IF Truthy(get(l.lender, col_day_1_advance, <<>>))
    THEN get(l.lender, col_day_1_advance, <<>>)
    ELSE get(l.lender, col_day_1_ltv, <<>>)

\* lines 630-631
net_refurb_of(l, day1_advance, refurb_gross, loan_term_months) ==
    IF Contains(<<"n","e","t">>, lower(str(day1_advance))) THEN refurb_gross
    ELSE hint_net(l, refurb_gross, loan_term_months)

\* a faulty lever that also suggests a light refurbishment for a refurbishment deal
light_refurb_given_any_deal(l, essentials, ltv, day1_advance, refurb_gross, net_refurb) ==
    IF /\ Truthy(day1_advance)
       /\ NumTruthy(refurb_gross) /\ RGt(refurb_gross, hint_gross_ltv(l))
       /\ NumTruthy(net_refurb) /\ RGe(net_refurb, ltv)
    THEN << [name |-> hint_name(l), note |-> <<"L","i","g","h","t"," ","r","e","f","u","r","b"," ","u","n","l","o","c","k","s"," ","h","i","g","h","e","r"," ","d","a","y","-","1"," ","a","d","v","a","n","c","e">>] >>
    ELSE <<>>

\* lines 628-642
light_refurb_given(l, essentials, ltv, day1_advance, refurb_gross, net_refurb) ==
    IF /\ ~essentials.is_refurb
       /\ Truthy(day1_advance)
       /\ NumTruthy(refurb_gross) /\ RGt(refurb_gross, hint_gross_ltv(l))
       /\ NumTruthy(net_refurb) /\ RGe(net_refurb, ltv)
    THEN << [name |-> hint_name(l), note |-> <<"L","i","g","h","t"," ","r","e","f","u","r","b"," ","u","n","l","o","c","k","s"," ","h","i","g","h","e","r"," ","d","a","y","-","1"," ","a","d","v","a","n","c","e">>] >>
    ELSE <<>>

light_refurb_from(l, essentials, ltv, day1_advance, refurb_gross) ==
    light_refurb_given(l, essentials, ltv, day1_advance, refurb_gross,
        net_refurb_of(l, day1_advance, refurb_gross, essentials.loan_term_months))

light_refurb_cell(l, essentials, ltv, day1_advance) ==
    light_refurb_from(l, essentials, ltv, day1_advance, parse_ltv(day1_advance))

\* lines 625-642: lever 3
light_refurb_hint(l, essentials, ltv) ==
    light_refurb_cell(l, essentials, ltv, day1_advance_of(l))

\* lines 645-649: the figure of the first BMV column
bmv_ltv_at(l, i) == IF i = 0 THEN NoneNum ELSE parse_ltv(l.lender[i][2])

bmv_hint_given(l, bmv_ltv) ==
    IF NumTruthy(bmv_ltv) /\ RGt(bmv_ltv, hint_gross_ltv(l))
    THEN << [name |-> hint_name(l),
             note |-> <<"B","M","V"," ","s","c","e","n","a","r","i","o"," ","c","o","u","l","d"," ","u","n","l","o","c","k"," ","h","i","g","h","e","r"," ","L","T","V"," ","v","s"," ","p","u","r","c","h","a","s","e"," ","p","r","i","c","e">>] >>
    ELSE <<>>

\* lines 644-655: lever 4
bmv_purchase_hint(l, essentials, ltv) ==
    bmv_hint_given(l, bmv_ltv_at(l,
        FirstOf({k \in 1..Len(l.lender) : Contains(<<"b","m","v">>, lower(l.lender[k][1]))})))

\* lines 659-664: the figure of the first supporting 2nd charge column
supporting_2nd_at(l, i) ==
    IF i # 0 /\ lower(str(l.lender[i][2])) # <<>>
         /\ ~Contains(<<"n","o","t"," ","a","v","a","i","l","a","b","l","e">>, lower(str(l.lender[i][2])))
         /\ ~Contains(<<"n","/","a">>, lower(str(l.lender[i][2])))
    THEN parse_ltv(l.lender[i][2]) ELSE NoneNum

\* lines 657-671: lever 5
additional_security_hint(l, essentials, ltv) ==
    IF /\ essentials.charge_position = <<"1","s","t">>
       /\ NumTruthy(supporting_2nd_at(l,
              FirstOf({k \in 1..Len(l.lender) :
                  Contains(<<"s","u","p","p","o","r","t","i","n","g">>, lower(l.lender[k][1]))
                      /\ Contains(<<"2","n","d">>, lower(l.lender[k][1]))})))
    THEN << [name |-> hint_name(l),
             note |-> <<"A","c","c","e","p","t","s"," ","s","u","p","p","o","r","t","i","n","g"," ","2","n","d"," ","c","h","a","r","g","e"," ","f","o","r"," ","a","d","d","i","t","i","o","n","a","l"," ","l","e","v","e","r","a","g","e">>] >>
    ELSE <<>>

\* line 678
rate_of(l) == parse_rate_band_midpoint(get(l.lender, col_rate_band, <<>>))

\* lines 675-680: the problem lenders that publish a rate
rate_comparison_of(problem_lenders) ==
    SelectSeq(problem_lenders, LAMBDA l : NumTruthy(rate_of(l)))

\* lines 683-685: the stable sort by rate puts first the earliest lender of the lowest
\* rate, and last the latest lender of the highest rate
lowest_of(rate_comparison) ==
    rate_comparison[FirstOf({i \in 1..Len(rate_comparison) :
        \A j \in 1..Len(rate_comparison) :
            RLe(rate_of(rate_comparison[i]), rate_of(rate_comparison[j]))})]

highest_of(rate_comparison) ==
    rate_comparison[FirstOf({i \in 1..Len(rate_comparison) :
        \A j \in 1..Len(rate_comparison) :
            RGe(rate_of(rate_comparison[i]), rate_of(rate_comparison[j]))})]

\* lines 687-702
lower_rate_given(lowest_lender, highest_lender, essentials, ltv) ==
    IF /\ RGe(RSub(rate_of(highest_lender), rate_of(lowest_lender)), Rat(1, 5))
       /\ NumTruthy(hint_gross_ltv(lowest_lender))
       /\ NumTruthy(hint_net(lowest_lender, hint_gross_ltv(lowest_lender),
                             essentials.loan_term_months))
       /\ RGe(hint_net(lowest_lender, hint_gross_ltv(lowest_lender),
                       essentials.loan_term_months), ltv)
    THEN << [name |-> hint_name(lowest_lender),
             note |-> <<"L","o","w","e","r"," ","r","a","t","e"," ","m","e","a","n","s"," ","l","e","s","s"," ","r","e","t","a","i","n","e","d"," ","i","n","t","e","r","e","s","t">>] >>
    ELSE <<>>

\* line 682
lower_rate_among(rate_comparison, essentials, ltv) ==
    IF Len(rate_comparison) > 1
    THEN lower_rate_given(lowest_of(rate_comparison), highest_of(rate_comparison),
                          essentials, ltv)
    ELSE <<>>

\* lines 673-702: lever 6, over the problem lenders that publish a rate
lower_rate_hint(problem_lenders, essentials, ltv) ==
    lower_rate_among(rate_comparison_of(problem_lenders), essentials, ltv)

\* what one lever adds for one problem lender; nothing without a gross figure (line 597)
lever_hint(l, lever, essentials, ltv) ==
    IF ~NumTruthy(hint_gross_ltv(l)) THEN <<>>
    ELSE CASE lever = "shorter_term" -> shorter_term_hint(l, essentials, ltv)
           [] lever = "serviced_interest" -> serviced_interest_hint(l, essentials, ltv)
           [] lever = "light_refurb" -> light_refurb_hint(l, essentials, ltv)
           [] lever = "bmv_purchase" -> bmv_purchase_hint(l, essentials, ltv)
           [] lever = "additional_security" -> additional_security_hint(l, essentials, ltv)

\* the hints of one lever over the first k problem lenders
RECURSIVE lever_hints(_, _, _, _, _)
lever_hints(problem_lenders, k, lever, essentials, ltv) ==
    IF k = 0 THEN <<>>
    ELSE lever_hints(problem_lenders, k - 1, lever, essentials, ltv)
             \o lever_hint(problem_lenders[k], lever, essentials, ltv)

RECURSIVE join(_, _)
join(parts, sep) ==
    IF parts = <<>> THEN <<>>
    ELSE IF Len(parts) = 1 THEN parts[1]
    ELSE parts[1] \o sep \o join(Tail(parts), sep)

names_of(hs) == [i \in 1..(IF Len(hs) < 2 THEN Len(hs) ELSE 2) |-> hs[i].name]

\* lines 704-719
summary_parts(h) ==
    (IF h.shorter_term # <<>>
     THEN << <<"S","h","o","r","t","e","r"," ","t","e","r","m"," ","c","o","u","l","d"," ","h","e","l","p"," ","w","i","t","h"," ">> \o h.shorter_term[1].name >> ELSE <<>>)
    \o (IF h.serviced_interest # <<>>
        THEN << <<"S","e","r","v","i","c","e","d"," ","i","n","t","e","r","e","s","t"," ","a","v","a","i","l","a","b","l","e",":"," ">> \o join(names_of(h.serviced_interest), <<","," ">>) >>
        ELSE <<>>)
    \o (IF h.light_refurb # <<>>
        THEN << <<"L","i","g","h","t"," ","r","e","f","u","r","b"," ","u","n","l","o","c","k","s",":"," ">> \o join(names_of(h.light_refurb), <<","," ">>) >> ELSE <<>>)
    \o (IF h.bmv_purchase # <<>> THEN << <<"B","M","V"," ","s","c","e","n","a","r","i","o"," ","c","o","u","l","d"," ","i","m","p","r","o","v","e"," ","l","e","v","e","r","a","g","e">> >> ELSE <<>>)
    \o (IF h.additional_security # <<>>
        THEN << <<"A","d","d","i","t","i","o","n","a","l"," ","s","e","c","u","r","i","t","y"," ","o","p","t","i","o","n"," ","a","v","a","i","l","a","b","l","e">> >> ELSE <<>>)
    \o (IF h.lower_rate_lender # <<>>
        THEN << <<"L","o","w","e","r"," ","r","a","t","e"," ","l","e","n","d","e","r",":"," ">> \o h.lower_rate_lender[1].name >> ELSE <<>>)

\* lines 562-571
NoHints ==
    [shorter_term |-> <<>>, serviced_interest |-> <<>>, light_refurb |-> <<>>,
     bmv_purchase |-> <<>>, additional_security |-> <<>>, lower_rate_lender |-> <<>>,
     summary |-> NoneVal, has_hints |-> FALSE]

\* lines 590-702: the six levers over the problem lenders
levers_of(problem_lenders, n, essentials, ltv) ==
    [NoHints EXCEPT
        !.shorter_term = lever_hints(problem_lenders, n, "shorter_term", essentials, ltv),
        !.serviced_interest = lever_hints(problem_lenders, n, "serviced_interest", essentials, ltv),
        !.light_refurb = lever_hints(problem_lenders, n, "light_refurb", essentials, ltv),
        !.bmv_purchase = lever_hints(problem_lenders, n, "bmv_purchase", essentials, ltv),
        !.additional_security =
            lever_hints(problem_lenders, n, "additional_security", essentials, ltv),
        !.lower_rate_lender = lower_rate_hint(problem_lenders, essentials, ltv)]

\* lines 721-723
with_summary(hints, parts) ==
    IF parts # <<>> THEN [hints EXCEPT !.summary = join(parts, <<";"," ">>), !.has_hints = TRUE]
    ELSE hints

summarised(hints) == with_summary(hints, summary_parts(hints))

\* lines 587-725
hints_for(problem_lenders, essentials, ltv) ==
    IF problem_lenders = <<>> THEN NoHints
    ELSE summarised(levers_of(problem_lenders, Len(problem_lenders), essentials, ltv))

generate_leverage_hints(lenders, essentials, ltv, eligible, excluded) ==
    hints_for(problem_lenders_of(eligible, excluded), essentials, ltv)

\* lines 787-788 and 795-796: the cell publishes an available figure
is_available(cell) ==
    LET v == lower(str(OrEmpty(cell)))
    IN  v # <<>> /\ ~Contains(<<"n","o","t"," ","a","v","a","i","l","a","b","l","e">>, v) /\ ~Contains(<<"n","/","a">>, v)

\* lines 785-790
offers_supporting_2nd(lender) ==
    \E k \in 1..Len(lender) :
        /\ Contains(<<"s","u","p","p","o","r","t","i","n","g","_","2","n","d","_","c","h","a","r","g","e">>, lower(lender[k][1]))
        /\ ~Contains(<<"h","o","m","e">>, lower(lender[k][1]))
        /\ is_available(lender[k][2])

\* lines 793-798
offers_supporting_equitable(lender) ==
    \E k \in 1..Len(lender) :
        /\ Contains(<<"s","u","p","p","o","r","t","i","n","g","_","e","q","u","i","t","a","b","l","e">>, lower(lender[k][1]))
        /\ is_available(lender[k][2])

\* lines 763-768
NoSecurityHints ==
    [additional_security_helps |-> FALSE, supporting_2nd_count |-> 0,
     equitable_count |-> 0, message |-> NoneVal]

\* a faulty message rule: the low-count branch uses the threshold of line 777
security_message_below_many(ltv, eligible, supporting_2nd_count, equitable_count) ==
    IF RGt(ltv, Rat(70, 1)) \/ Len(eligible) < 20
    THEN [additional_security_helps |-> TRUE,
          supporting_2nd_count |-> supporting_2nd_count, equitable_count |-> equitable_count,
          message |-> <<"A","d","d","i","t","i","o","n","a","l"," ","s","e","c","u","r","i","t","y"," ","c","o","u","l","d"," ","e","x","p","a","n","d"," ","o","p","t","i","o","n","s",":"," ">>
              \o IntToDigits(supporting_2nd_count) \o <<" ","l","e","n","d","e","r","s"," ","o","f","f","e","r"," ","s","u","p","p","o","r","t","i","n","g"," ","2","n","d"," ","c","h","a","r","g","e">>]
    ELSE [NoSecurityHints EXCEPT !.supporting_2nd_count = supporting_2nd_count,
                                 !.equitable_count = equitable_count]

\* lines 800-809, given the two counts of lines 779-798
security_message(ltv, eligible, supporting_2nd_count, equitable_count) ==
    IF RGt(ltv, Rat(70, 1))
    THEN [additional_security_helps |-> TRUE,
          supporting_2nd_count |-> supporting_2nd_count, equitable_count |-> equitable_count,
          message |-> <<"I","f"," ","b","o","r","r","o","w","e","r"," ","h","a","s"," ","o","t","h","e","r"," ","p","r","o","p","e","r","t","y",":"," ","s","u","p","p","o","r","t","i","n","g"," ","2","n","d"," ","c","h","a","r","g","e"," ","(">>
              \o IntToDigits(supporting_2nd_count) \o <<" ","l","e","n","d","e","r","s",")"," ","o","r"," ","e","q","u","i","t","a","b","l","e"," ","c","h","a","r","g","e"," ","(">>
              \o IntToDigits(equitable_count) \o <<" ","l","e","n","d","e","r","s",")"," ","c","o","u","l","d"," ","r","e","d","u","c","e"," ","e","f","f","e","c","t","i","v","e"," ","L","T","V">>]
    ELSE IF Len(eligible) < 10
    THEN [additional_security_helps |-> TRUE,
          supporting_2nd_count |-> supporting_2nd_count, equitable_count |-> equitable_count,
          message |-> <<"A","d","d","i","t","i","o","n","a","l"," ","s","e","c","u","r","i","t","y"," ","c","o","u","l","d"," ","e","x","p","a","n","d"," ","o","p","t","i","o","n","s",":"," ">>
              \o IntToDigits(supporting_2nd_count) \o <<" ","l","e","n","d","e","r","s"," ","o","f","f","e","r"," ","s","u","p","p","o","r","t","i","n","g"," ","2","n","d"," ","c","h","a","r","g","e">>]
    ELSE [NoSecurityHints EXCEPT !.supporting_2nd_count = supporting_2nd_count,
                                 !.equitable_count = equitable_count]

generate_security_hints(lenders, essentials, ltv, eligible, excluded) ==
    IF essentials.charge_position # <<"1","s","t">> THEN NoSecurityHints
    ELSE IF RLe(ltv, Rat(70, 1)) /\ Len(eligible) >= 20 THEN NoSecurityHints
    ELSE security_message(ltv, eligible,
             Cardinality({k \in 1..Len(lenders) : offers_supporting_2nd(lenders[k])}),
             Cardinality({k \in 1..Len(lenders) : offers_supporting_equitable(lenders[k])}))

\* lines 527-545: the response, given the two lists
knockout_result(lenders, essentials, ltv, eligible, excluded) ==
    [eligible |-> eligible,
     excluded |-> excluded,
     summary |-> [total |-> Len(lenders), eligible |-> Len(eligible),
                  excluded |-> Len(excluded), ltv |-> ltv,
                  works_ratio |-> works_ratio_of(essentials)],
     leverage_hints |-> generate_leverage_hints(lenders, essentials, ltv, eligible, excluded),
     security_hints |-> generate_security_hints(lenders, essentials, ltv, eligible, excluded)]

with_lists(lenders, essentials, ltv, lists) ==
    knockout_result(lenders, essentials, ltv, lists.eligible, lists.excluded)

apply_knockouts(lenders, essentials) ==
    with_lists(lenders, essentials, ltv_of(essentials),
               categorise(lenders, essentials, Len(lenders)))

----------------------------------------------------------------------------
(* Refiner engine *)

\* int(text) of stripped, non-empty text: an optional sign and digits, else ValueError
int_of(t) ==
    LET body == IF t # <<>> /\ Head(t) \in {"+", "-"} THEN Tail(t) ELSE t
    IN  IF body # <<>> /\ (\A i \in 1..Len(body) : body[i] \in Digits)
        THEN [ok |-> TRUE, n |-> IF Head(t) = "-" THEN -DigitsToInt(body) ELSE DigitsToInt(body)]
        ELSE [ok |-> FALSE, n |-> 0]

\* one check lambda applied to a lender result; ok = FALSE when it raises ValueError
run_check(c, l) ==
    CASE c.kind = "contains" ->
             LET v == lower(str(get(l.lender, c.column, <<>>)))
             IN  [ok |-> TRUE, val |-> \E i \in 1..Len(c.needles) : Contains(c.needles[i], v)]
      [] c.kind = "appetite" ->
             LET t == strip(str(get(l.lender, c.column, <<"0">>)))
                 k == IF t = <<>> THEN [ok |-> TRUE, n |-> 0] ELSE int_of(t)
             IN  [ok |-> k.ok, val |-> k.ok /\ k.n >= 2]
      [] c.kind = "none_or_blank" ->
             LET v == str(get(l.lender, c.column, <<>>))
             IN  [ok |-> TRUE, val |-> Contains(c.needles[1], lower(v)) \/ strip(v) = <<>>]

\* the predicate table of get_refiner_options, lines 1270-1435, in dict order
\* (icon and label are presentation constants, left out)
option_checks ==
    << [key |-> "foreign_national", category |-> "borrower", column |-> <<"c","a","n","_","y","o","u","_","l","e","n","d","_","t","o","_","f","o","r","e","i","g","n","_","n","a","t","i","o","n","a","l","s">>, kind |-> "contains", needles |-> <<<<"y","e","s">>, <<"o","n","l","y">>>>],
       [key |-> "expat", category |-> "borrower", column |-> <<"c","a","n","_","y","o","u","_","l","e","n","d","_","t","o","_","e","x","p","a","t","s">>, kind |-> "contains", needles |-> <<<<"y","e","s">>, <<"o","n","l","y">>>>],
       [key |-> "adverse_credit", category |-> "borrower", column |-> <<"h","e","a","v","y","_","r","e","c","e","n","t","_","a","d","v","e","r","s","e","_","a","c","c","e","p","t","e","d","_","e","g","_","m","i","s","s","e","d","_","m","o","r","t","g","a","g","e","_","p","a","y","m","e","n","t","s","_","o","r">>, kind |-> "contains", needles |-> <<<<"y","e","s">>, <<"b","r","e","a","d">>>>],
       [key |-> "bankruptcy", category |-> "borrower", column |-> <<"b","a","n","k","r","u","p","c","y","_","i","v","a","s","_","a","c","c","e","p","t","e","d">>, kind |-> "contains", needles |-> <<<<"y","e","s">>>>],
       [key |-> "ftb", category |-> "borrower", column |-> <<"d","o","_","y","o","u","_","l","e","n","d","_","t","o","_","f","i","r","s","t","_","t","i","m","e","_","b","u","y","e","r","s">>, kind |-> "contains", needles |-> <<<<"y","e","s">>>>],
       [key |-> "ftl", category |-> "borrower", column |-> <<"d","o","_","y","o","u","_","l","e","n","d","_","t","o","_","f","i","r","s","t","_","t","i","m","e","_","l","a","n","d","l","o","r","d","s">>, kind |-> "contains", needles |-> <<<<"y","e","s">>>>],
       [key |-> "non_owner_occ", category |-> "borrower", column |-> <<"d","o","_","y","o","u","_","l","e","n","d","_","t","o","_","n","o","n","_","o","w","n","e","r","_","o","c","c","u","p","i","e","r","s">>, kind |-> "contains", needles |-> <<<<"y","e","s">>>>],
       [key |-> "auction", category |-> "deal", column |-> <<"d","e","a","l","_","a","p","p","e","t","i","t","e","_","0","_","w","o","n","_","t","_","c","o","n","s","i","d","e","r","_","1","_","l","o","w","_","a","p","p","e","t","i","t","e","_","2","_","w","i","l","l","_","c","o","n","s","i","d","e">>, kind |-> "appetite", needles |-> <<>>],
       [key |-> "business_stabilisation", category |-> "deal", column |-> <<"d","e","a","l","_","a","p","p","e","t","i","t","e","_","0","_","w","o","n","_","t","_","c","o","n","s","i","d","e","r","_","1","_","l","o","w","_","a","p","p","e","t","i","t","e","_","2","_","w","i","l","l","_","c","o","n","s","i","d","e","_","1">>, kind |-> "appetite", needles |-> <<>>],
       [key |-> "insolvency", category |-> "deal", column |-> <<"d","e","a","l","_","a","p","p","e","t","i","t","e","_","0","_","w","o","n","_","t","_","c","o","n","s","i","d","e","r","_","1","_","l","o","w","_","a","p","p","e","t","i","t","e","_","2","_","w","i","l","l","_","c","o","n","s","i","d","e","_","2">>, kind |-> "appetite", needles |-> <<>>],
       [key |-> "hmo", category |-> "deal", column |-> <<"d","e","a","l","_","a","p","p","e","t","i","t","e","_","0","_","w","o","n","_","t","_","c","o","n","s","i","d","e","r","_","1","_","l","o","w","_","a","p","p","e","t","i","t","e","_","2","_","w","i","l","l","_","c","o","n","s","i","d","e","_","3">>, kind |-> "appetite", needles |-> <<>>],
       [key |-> "comm_to_resi", category |-> "deal", column |-> <<"d","e","a","l","_","a","p","p","e","t","i","t","e","_","0","_","w","o","n","_","t","_","c","o","n","s","i","d","e","r","_","1","_","l","o","w","_","a","p","p","e","t","i","t","e","_","2","_","w","i","l","l","_","c","o","n","s","i","d","e","_","4">>, kind |-> "appetite", needles |-> <<>>],
       [key |-> "airspace", category |-> "deal", column |-> <<"d","e","a","l","_","a","p","p","e","t","i","t","e","_","0","_","w","o","n","_","t","_","c","o","n","s","i","d","e","r","_","1","_","l","o","w","_","a","p","p","e","t","i","t","e","_","2","_","w","i","l","l","_","c","o","n","s","i","d","e","_","5">>, kind |-> "appetite", needles |-> <<>>],
       [key |-> "pre_planning", category |-> "deal", column |-> <<"d","e","a","l","_","a","p","p","e","t","i","t","e","_","0","_","w","o","n","_","t","_","c","o","n","s","i","d","e","r","_","1","_","l","o","w","_","a","p","p","e","t","i","t","e","_","2","_","w","i","l","l","_","c","o","n","s","i","d","e","_","6">>, kind |-> "appetite", needles |-> <<>>],
       [key |-> "subsidence", category |-> "deal", column |-> <<"d","e","a","l","_","a","p","p","e","t","i","t","e","_","0","_","w","o","n","_","t","_","c","o","n","s","i","d","e","r","_","1","_","l","o","w","_","a","p","p","e","t","i","t","e","_","2","_","w","i","l","l","_","c","o","n","s","i","d","e","_","7">>, kind |-> "appetite", needles |-> <<>>],
       [key |-> "sitting_tenant", category |-> "deal", column |-> <<"d","e","a","l","_","a","p","p","e","t","i","t","e","_","0","_","w","o","n","_","t","_","c","o","n","s","i","d","e","r","_","1","_","l","o","w","_","a","p","p","e","t","i","t","e","_","2","_","w","i","l","l","_","c","o","n","s","i","d","e","_","8">>, kind |-> "appetite", needles |-> <<>>],
       [key |-> "probate", category |-> "deal", column |-> <<"d","e","a","l","_","a","p","p","e","t","i","t","e","_","0","_","w","o","n","_","t","_","c","o","n","s","i","d","e","r","_","1","_","l","o","w","_","a","p","p","e","t","i","t","e","_","2","_","w","i","l","l","_","c","o","n","s","i","d","e","_","9">>, kind |-> "appetite", needles |-> <<>>],
       [key |-> "fire_flood", category |-> "deal", column |-> <<"d","e","a","l","_","a","p","p","e","t","i","t","e","_","0","_","w","o","n","_","t","_","c","o","n","s","i","d","e","r","_","1","_","l","o","w","_","a","p","p","e","t","i","t","e","_","2","_","w","i","l","l","_","c","o","n","s","i","d","e","_","1","0">>, kind |-> "appetite", needles |-> <<>>],
       [key |-> "barn_church", category |-> "deal", column |-> <<"d","e","a","l","_","a","p","p","e","t","i","t","e","_","0","_","w","o","n","_","t","_","c","o","n","s","i","d","e","r","_","1","_","l","o","w","_","a","p","p","e","t","i","t","e","_","2","_","w","i","l","l","_","c","o","n","s","i","d","e","_","1","1">>, kind |-> "appetite", needles |-> <<>>],
       [key |-> "developer_exit", category |-> "deal", column |-> <<"d","e","a","l","_","a","p","p","e","t","i","t","e","_","0","_","w","o","n","_","t","_","c","o","n","s","i","d","e","r","_","1","_","l","o","w","_","a","p","p","e","t","i","t","e","_","2","_","w","i","l","l","_","c","o","n","s","i","d","e","_","1","2">>, kind |-> "appetite", needles |-> <<>>],
       [key |-> "lease_extension", category |-> "deal", column |-> <<"d","e","a","l","_","a","p","p","e","t","i","t","e","_","0","_","w","o","n","_","t","_","c","o","n","s","i","d","e","r","_","1","_","l","o","w","_","a","p","p","e","t","i","t","e","_","2","_","w","i","l","l","_","c","o","n","s","i","d","e","_","1","3">>, kind |-> "appetite", needles |-> <<>>],
       [key |-> "refi_to_btl", category |-> "deal", column |-> <<"d","e","a","l","_","a","p","p","e","t","i","t","e","_","0","_","w","o","n","_","t","_","c","o","n","s","i","d","e","r","_","1","_","l","o","w","_","a","p","p","e","t","i","t","e","_","2","_","w","i","l","l","_","c","o","n","s","i","d","e","_","1","4">>, kind |-> "appetite", needles |-> <<>>],
       [key |-> "dual_legal", category |-> "product", column |-> <<"d","u","a","l","_","l","e","g","a","l","_","r","e","p","_","o","f","f","e","r","e","d">>, kind |-> "contains", needles |-> <<<<"y","e","s">>>>],
       [key |-> "serviced_interest", category |-> "product", column |-> <<"s","e","r","v","i","c","e","d","_","i","n","t","e","r","e","s","t","_","a","l","l","o","w","e","d">>, kind |-> "contains", needles |-> <<<<"y","e","s">>>>],
       [key |-> "no_exit_fee", category |-> "product", column |-> <<"d","o","_","y","o","u","_","c","h","a","r","g","e","_","e","x","i","t","_","f","e","e","s">>, kind |-> "contains", needles |-> <<<<"n","e","v","e","r">>>>],
       [key |-> "avm_available", category |-> "product", column |-> <<"c","a","n","_","y","o","u","_","p","o","t","e","n","t","i","a","l","l","y","_","u","s","e","_","a","v","m","s","_","a","n","d","_","o","r","_","d","e","s","k","t","o","p","s","_","f","o","r","_","r","e","s","i","d","e","n","t","i","a","l">>, kind |-> "contains", needles |-> <<<<"y","e","s">>>>] >>

\* the two entries added for a refurbishment deal, lines 1438-1451
refurb_option_checks ==
    << [key |-> "staged_funding", category |-> "deal", column |-> <<"d","o","_","y","o","u","_","a","l","s","o","_","o","f","f","e","r","_","a","r","r","e","a","r","s","_","s","t","a","g","e","d","_","f","u","n","d","i","n","g","_","f","o","r","_","r","e","f","u","r","b","i","s","h","m","e","n","t","s">>, kind |-> "contains", needles |-> <<<<"y","e","s">>>>],
       [key |-> "first_time_dev", category |-> "borrower", column |-> <<"m","i","n","i","m","u","m","_","b","o","r","r","o","w","e","r","_","e","x","p","e","r","i","e","n","c","e","_","w","i","t","h","_","r","e","f","u","r","b","s">>, kind |-> "none_or_blank", needles |-> <<<<"n","o","n","e">>>>] >>

\* the predicate table of apply_refiners, lines 1507-1545
apply_checks ==
    << [key |-> "foreign_national", column |-> <<"c","a","n","_","y","o","u","_","l","e","n","d","_","t","o","_","f","o","r","e","i","g","n","_","n","a","t","i","o","n","a","l","s">>, kind |-> "contains", needles |-> <<<<"y","e","s">>, <<"o","n","l","y">>>>],
       [key |-> "expat", column |-> <<"c","a","n","_","y","o","u","_","l","e","n","d","_","t","o","_","e","x","p","a","t","s">>, kind |-> "contains", needles |-> <<<<"y","e","s">>, <<"o","n","l","y">>>>],
       [key |-> "adverse_credit", column |-> <<"h","e","a","v","y","_","r","e","c","e","n","t","_","a","d","v","e","r","s","e","_","a","c","c","e","p","t","e","d","_","e","g","_","m","i","s","s","e","d","_","m","o","r","t","g","a","g","e","_","p","a","y","m","e","n","t","s","_","o","r">>, kind |-> "contains", needles |-> <<<<"y","e","s">>, <<"b","r","e","a","d">>>>],
       [key |-> "bankruptcy", column |-> <<"b","a","n","k","r","u","p","c","y","_","i","v","a","s","_","a","c","c","e","p","t","e","d">>, kind |-> "contains", needles |-> <<<<"y","e","s">>>>],
       [key |-> "ftb", column |-> <<"d","o","_","y","o","u","_","l","e","n","d","_","t","o","_","f","i","r","s","t","_","t","i","m","e","_","b","u","y","e","r","s">>, kind |-> "contains", needles |-> <<<<"y","e","s">>>>],
       [key |-> "ftl", column |-> <<"d","o","_","y","o","u","_","l","e","n","d","_","t","o","_","f","i","r","s","t","_","t","i","m","e","_","l","a","n","d","l","o","r","d","s">>, kind |-> "contains", needles |-> <<<<"y","e","s">>>>],
       [key |-> "non_owner_occ", column |-> <<"d","o","_","y","o","u","_","l","e","n","d","_","t","o","_","n","o","n","_","o","w","n","e","r","_","o","c","c","u","p","i","e","r","s">>, kind |-> "contains", needles |-> <<<<"y","e","s">>>>],
       [key |-> "auction", column |-> <<"d","e","a","l","_","a","p","p","e","t","i","t","e","_","0","_","w","o","n","_","t","_","c","o","n","s","i","d","e","r","_","1","_","l","o","w","_","a","p","p","e","t","i","t","e","_","2","_","w","i","l","l","_","c","o","n","s","i","d","e">>, kind |-> "appetite", needles |-> <<>>],
       [key |-> "business_stabilisation", column |-> <<"d","e","a","l","_","a","p","p","e","t","i","t","e","_","0","_","w","o","n","_","t","_","c","o","n","s","i","d","e","r","_","1","_","l","o","w","_","a","p","p","e","t","i","t","e","_","2","_","w","i","l","l","_","c","o","n","s","i","d","e","_","1">>, kind |-> "appetite", needles |-> <<>>],
       [key |-> "insolvency", column |-> <<"d","e","a","l","_","a","p","p","e","t","i","t","e","_","0","_","w","o","n","_","t","_","c","o","n","s","i","d","e","r","_","1","_","l","o","w","_","a","p","p","e","t","i","t","e","_","2","_","w","i","l","l","_","c","o","n","s","i","d","e","_","2">>, kind |-> "appetite", needles |-> <<>>],
       [key |-> "hmo", column |-> <<"d","e","a","l","_","a","p","p","e","t","i","t","e","_","0","_","w","o","n","_","t","_","c","o","n","s","i","d","e","r","_","1","_","l","o","w","_","a","p","p","e","t","i","t","e","_","2","_","w","i","l","l","_","c","o","n","s","i","d","e","_","3">>, kind |-> "appetite", needles |-> <<>>],
       [key |-> "comm_to_resi", column |-> <<"d","e","a","l","_","a","p","p","e","t","i","t","e","_","0","_","w","o","n","_","t","_","c","o","n","s","i","d","e","r","_","1","_","l","o","w","_","a","p","p","e","t","i","t","e","_","2","_","w","i","l","l","_","c","o","n","s","i","d","e","_","4">>, kind |-> "appetite", needles |-> <<>>],
       [key |-> "airspace", column |-> <<"d","e","a","l","_","a","p","p","e","t","i","t","e","_","0","_","w","o","n","_","t","_","c","o","n","s","i","d","e","r","_","1","_","l","o","w","_","a","p","p","e","t","i","t","e","_","2","_","w","i","l","l","_","c","o","n","s","i","d","e","_","5">>, kind |-> "appetite", needles |-> <<>>],
       [key |-> "pre_planning", column |-> <<"d","e","a","l","_","a","p","p","e","t","i","t","e","_","0","_","w","o","n","_","t","_","c","o","n","s","i","d","e","r","_","1","_","l","o","w","_","a","p","p","e","t","i","t","e","_","2","_","w","i","l","l","_","c","o","n","s","i","d","e","_","6">>, kind |-> "appetite", needles |-> <<>>],
       [key |-> "subsidence", column |-> <<"d","e","a","l","_","a","p","p","e","t","i","t","e","_","0","_","w","o","n","_","t","_","c","o","n","s","i","d","e","r","_","1","_","l","o","w","_","a","p","p","e","t","i","t","e","_","2","_","w","i","l","l","_","c","o","n","s","i","d","e","_","7">>, kind |-> "appetite", needles |-> <<>>],
       [key |-> "sitting_tenant", column |-> <<"d","e","a","l","_","a","p","p","e","t","i","t","e","_","0","_","w","o","n","_","t","_","c","o","n","s","i","d","e","r","_","1","_","l","o","w","_","a","p","p","e","t","i","t","e","_","2","_","w","i","l","l","_","c","o","n","s","i","d","e","_","8">>, kind |-> "appetite", needles |-> <<>>],
       [key |-> "probate", column |-> <<"d","e","a","l","_","a","p","p","e","t","i","t","e","_","0","_","w","o","n","_","t","_","c","o","n","s","i","d","e","r","_","1","_","l","o","w","_","a","p","p","e","t","i","t","e","_","2","_","w","i","l","l","_","c","o","n","s","i","d","e","_","9">>, kind |-> "appetite", needles |-> <<>>],
       [key |-> "fire_flood", column |-> <<"d","e","a","l","_","a","p","p","e","t","i","t","e","_","0","_","w","o","n","_","t","_","c","o","n","s","i","d","e","r","_","1","_","l","o","w","_","a","p","p","e","t","i","t","e","_","2","_","w","i","l","l","_","c","o","n","s","i","d","e","_","1","0">>, kind |-> "appetite", needles |-> <<>>],
       [key |-> "barn_church", column |-> <<"d","e","a","l","_","a","p","p","e","t","i","t","e","_","0","_","w","o","n","_","t","_","c","o","n","s","i","d","e","r","_","1","_","l","o","w","_","a","p","p","e","t","i","t","e","_","2","_","w","i","l","l","_","c","o","n","s","i","d","e","_","1","1">>, kind |-> "appetite", needles |-> <<>>],
       [key |-> "developer_exit", column |-> <<"d","e","a","l","_","a","p","p","e","t","i","t","e","_","0","_","w","o","n","_","t","_","c","o","n","s","i","d","e","r","_","1","_","l","o","w","_","a","p","p","e","t","i","t","e","_","2","_","w","i","l","l","_","c","o","n","s","i","d","e","_","1","2">>, kind |-> "appetite", needles |-> <<>>],
       [key |-> "lease_extension", column |-> <<"d","e","a","l","_","a","p","p","e","t","i","t","e","_","0","_","w","o","n","_","t","_","c","o","n","s","i","d","e","r","_","1","_","l","o","w","_","a","p","p","e","t","i","t","e","_","2","_","w","i","l","l","_","c","o","n","s","i","d","e","_","1","3">>, kind |-> "appetite", needles |-> <<>>],
       [key |-> "refi_to_btl", column |-> <<"d","e","a","l","_","a","p","p","e","t","i","t","e","_","0","_","w","o","n","_","t","_","c","o","n","s","i","d","e","r","_","1","_","l","o","w","_","a","p","p","e","t","i","t","e","_","2","_","w","i","l","l","_","c","o","n","s","i","d","e","_","1","4">>, kind |-> "appetite", needles |-> <<>>],
       [key |-> "dual_legal", column |-> <<"d","u","a","l","_","l","e","g","a","l","_","r","e","p","_","o","f","f","e","r","e","d">>, kind |-> "contains", needles |-> <<<<"y","e","s">>>>],
       [key |-> "serviced_interest", column |-> <<"s","e","r","v","i","c","e","d","_","i","n","t","e","r","e","s","t","_","a","l","l","o","w","e","d">>, kind |-> "contains", needles |-> <<<<"y","e","s">>>>],
       [key |-> "no_exit_fee", column |-> <<"d","o","_","y","o","u","_","c","h","a","r","g","e","_","e","x","i","t","_","f","e","e","s">>, kind |-> "contains", needles |-> <<<<"n","e","v","e","r">>>>],
       [key |-> "avm_available", column |-> <<"c","a","n","_","y","o","u","_","p","o","t","e","n","t","i","a","l","l","y","_","u","s","e","_","a","v","m","s","_","a","n","d","_","o","r","_","d","e","s","k","t","o","p","s","_","f","o","r","_","r","e","s","i","d","e","n","t","i","a","l">>, kind |-> "contains", needles |-> <<<<"y","e","s">>>>],
       [key |-> "staged_funding", column |-> <<"d","o","_","y","o","u","_","a","l","s","o","_","o","f","f","e","r","_","a","r","r","e","a","r","s","_","s","t","a","g","e","d","_","f","u","n","d","i","n","g","_","f","o","r","_","r","e","f","u","r","b","i","s","h","m","e","n","t","s">>, kind |-> "contains", needles |-> <<<<"y","e","s">>>>],
       [key |-> "first_time_dev", column |-> <<"m","i","n","i","m","u","m","_","b","o","r","r","o","w","e","r","_","e","x","p","e","r","i","e","n","c","e","_","w","i","t","h","_","r","e","f","u","r","b","s">>, kind |-> "none_or_blank", needles |-> <<<<"n","o","n","e">>>>] >>


refiner_checks(is_refurb) ==
    IF is_refurb THEN option_checks \o refurb_option_checks ELSE option_checks

\* the outcome of a call that raised
Raised == [ok |-> FALSE, lenders |-> <<>>]

\* line 1549: one refiner, the i-th of the table (0: not a key of the table), applied;
\* once a check has raised nothing more is done
apply_one(result, i) ==
    IF ~result.ok \/ i = 0 THEN result
    ELSE IF \E k \in 1..Len(result.lenders) : ~run_check(apply_checks[i], result.lenders[k]).ok
         THEN Raised
    ELSE [ok |-> TRUE,
          lenders |-> SelectSeq(result.lenders, LAMBDA l : run_check(apply_checks[i], l).val)]

\* lines 1547-1549: the active refiners applied in the order the set yields them
RECURSIVE apply_in_order(_, _)
apply_in_order(result, order) ==
    IF order = <<>> THEN result
    ELSE apply_in_order(apply_one(result,
                            FirstOf({i \in 1..Len(apply_checks) :
                                        apply_checks[i].key = Head(order)})),
                        Tail(order))

\* active_refiners is given as the sequence in which the set is iterated
apply_refiners(eligible, active_refiners) ==
    IF active_refiners = <<>> THEN [ok |-> TRUE, lenders |-> eligible]
    ELSE apply_in_order([ok |-> TRUE, lenders |-> eligible], active_refiners)

\* lines 1265-1267; -1 when a check raises
count_if_added(current_eligible, c) ==
    IF \E i \in 1..Len(current_eligible) : ~run_check(c, current_eligible[i]).ok THEN -1
    ELSE Cardinality({i \in 1..Len(current_eligible) : run_check(c, current_eligible[i]).val})

\* a faulty count: an active refiner reports one lender too many
remaining_of_one_more(c, active, current_eligible) ==
    IF c.key \in active THEN Len(current_eligible) + 1
    ELSE count_if_added(current_eligible, c)

\* lines 1458-1466
remaining_of(c, active, current_eligible) ==
    IF c.key \in active THEN Len(current_eligible) ELSE count_if_added(current_eligible, c)

\* lines 1470-1476
refiner_data(c, active, current_eligible) ==
    [key |-> c.key, remaining |-> remaining_of(c, active, current_eligible),
     active |-> c.key \in active]

\* the sort key of lines 1486-1488 orders a before b
sorts_before(a, b) ==
    LET ka == IF a.active THEN -1 ELSE 0
        kb == IF b.active THEN -1 ELSE 0
    IN  ka < kb \/ (ka = kb /\ -a.remaining < -b.remaining)

\* list.sort: stable, so x goes behind every element that does not sort after it
RECURSIVE sort_refiners(_)
sort_refiners(xs) ==
    IF xs = <<>> THEN <<>>
    ELSE LET sorted == sort_refiners(SubSeq(xs, 1, Len(xs) - 1))
             x == xs[Len(xs)]
             n == Cardinality({i \in 1..Len(sorted) : ~sorts_before(x, sorted[i])})
         IN  SubSeq(sorted, 1, n) \o <<x>> \o SubSeq(sorted, n + 1, Len(sorted))

\* a faulty selection: facets that would leave no lender are listed too
facets_of_any_count(category, checks, active, current_eligible) ==
    LET mine == SelectSeq(checks, LAMBDA c : c.category = category)
    IN  [i \in 1..Len(mine) |-> refiner_data(mine[i], active, current_eligible)]

\* lines 1478-1483: the facets of one category that have lenders left, in table order
facets_of(category, checks, active, current_eligible) ==
    LET mine == SelectSeq(checks, LAMBDA c : c.category = category)
        data == [i \in 1..Len(mine) |-> refiner_data(mine[i], active, current_eligible)]
    IN  SelectSeq(data, LAMBDA d : d.remaining > 0)

\* the response to a request that raised (the framework answers 500)
NoOptions ==
    [ok |-> FALSE, base_count |-> 0, current_count |-> 0,
     borrower_refiners |-> <<>>, deal_refiners |-> <<>>, product_refiners |-> <<>>]

\* lines 1453-1497: the facets over the refined list, unless a check raises
options_over(eligible, current_eligible, checks, active) ==
    IF \E i \in 1..Len(checks) : remaining_of(checks[i], active, current_eligible) < 0
    THEN NoOptions
    ELSE [ok |-> TRUE, base_count |-> Len(eligible), current_count |-> Len(current_eligible),
          borrower_refiners |->
              sort_refiners(facets_of("borrower", checks, active, current_eligible)),
          deal_refiners |-> sort_refiners(facets_of("deal", checks, active, current_eligible)),
          product_refiners |->
              sort_refiners(facets_of("product", checks, active, current_eligible))]

\* lines 1260-1263
options_after(eligible, current, checks, active) ==
    IF ~current.ok THEN NoOptions ELSE options_over(eligible, current.lenders, checks, active)

options_of(eligible, essentials, active_order) ==
    options_after(eligible, apply_refiners(eligible, active_order),
                  refiner_checks(essentials.is_refurb), essentials.active_refiners)

\* POST /api/refiner-options, lines 1253-1497
get_refiner_options(lenders, essentials, active_order) ==
    options_of(apply_knockouts(lenders, essentials).eligible, essentials, active_order)

----------------------------------------------------------------------------
(* Rate limiter and chat endpoint *)

RATE_LIMIT == 30     \* line 35: max queries per session per hour
Hour == 3            \* timedelta(hours=1) of line 41, in ticks of the clock

\* line 47: rate_limit_store[session_id], which lines 43-44 created empty if missing
stored(store, session_id) ==
    IF session_id \in DOMAIN store THEN store[session_id] ELSE <<>>

\* line 47: the entries younger than one hour
recent(timestamps, now) == SelectSeq(timestamps, LAMBDA ts : ts > now - Hour)

\* a faulty limit: one more entry than RATE_LIMIT is let through
within_limit_inclusive(timestamps) == ~(Len(timestamps) > RATE_LIMIT)

\* lines 50-51
within_limit(timestamps) == ~(Len(timestamps) >= RATE_LIMIT)

\* lines 38-55: what the call returns
check_rate_limit(store, session_id, now) ==
    within_limit(recent(stored(store, session_id), now))

\* a faulty limiter that also records the time of a rejected call
store_after_stamping_every_call(store, session_id, now) ==
    [s \in DOMAIN store \cup {session_id} |->
        IF s # session_id THEN store[s]
        ELSE Append(recent(stored(store, session_id), now), now)]

\* lines 38-55: the store the call leaves behind
store_after(store, session_id, now) ==
    [s \in DOMAIN store \cup {session_id} |->
        IF s # session_id THEN store[s]
        ELSE IF within_limit(recent(stored(store, session_id), now))
             THEN Append(recent(stored(store, session_id), now), now)
             ELSE recent(stored(store, session_id), now)]

RateLimitMessage ==
    "Rate limit reached (30 queries/hour). Please wait before sending more queries."
ApiKeyMessage == "AI features require an Anthropic API key."
AiErrorMessage == "I encountered an error communicating with the AI service"

\* what the collaborators of one chat_with_ai call do: no API key (line 1078),
\* get_conversation_history / apply_knockouts raises before the try block
\* (lines 1082-1093), client.messages.create raises (line 1115), the reply
\* arrives and both rows are written (lines 1125-1126), or the reply arrives
\* and the first or the second INSERT raises
Outcomes ==
    {"no_client", "context_raises", "ai_raises", "replied",
     "first_save_raises", "second_save_raises"}

\* line 164: one row of the conversations table
message_row(role, content) == [role |-> role, content |-> content]

\* lines 1074-1133: the response, the session's rows afterwards, and whether
\* the AI service was called
chat_with_ai(history, user_message, reply, outcome) ==
    CASE outcome = "no_client" ->
             [raised |-> FALSE, response |-> ApiKeyMessage, history |-> history, called |-> FALSE]
      [] outcome = "context_raises" ->
             [raised |-> TRUE, response |-> "", history |-> history, called |-> FALSE]
      [] outcome = "ai_raises" ->
             [raised |-> FALSE, response |-> AiErrorMessage, history |-> history, called |-> TRUE]
      [] outcome = "replied" ->
             [raised |-> FALSE, response |-> reply,
              history |-> history \o <<message_row("user", user_message),
                                       message_row("assistant", reply)>>,
              called |-> TRUE]
      [] outcome = "first_save_raises" ->
             [raised |-> FALSE, response |-> AiErrorMessage, history |-> history, called |-> TRUE]
      [] outcome = "second_save_raises" ->
             [raised |-> FALSE, response |-> AiErrorMessage,
              history |-> Append(history, message_row("user", user_message)),
              called |-> TRUE]

\* lines 1558-1570: the body of the response
chat_response(allowed, result) ==
    IF ~allowed THEN [status |-> 200, response |-> RateLimitMessage, rate_limited |-> TRUE]
    ELSE IF result.raised THEN [status |-> 500, response |-> "", rate_limited |-> FALSE]
    ELSE [status |-> 200, response |-> result.response, rate_limited |-> FALSE]

----------------------------------------------------------------------------
(* Inputs of the parser specification *)

ParseAlphabet == {"GBP", ",", ".", "0", "1", "5", "k", "m", "M", "x", " "}

RECURSIVE SeqsUpTo(_, _)
SeqsUpTo(A, n) ==
    IF n = 0 THEN {<<>>}
    ELSE LET shorter == SeqsUpTo(A, n - 1)
         IN  shorter \cup {Append(s, c) : s \in shorter, c \in A}

ExpandedDigits(s) ==
    CountOf(s, Digits) + 3 * CountOf(s, {"k", "K"}) + 6 * CountOf(s, {"m", "M"})

ParseExamples == {<<"GBP","1",",","2","5","0",",","0","0","0">>, <<"2","5","0","k">>, <<"1",".","5","m">>, <<"2",".","5","k">>, <<"GBP","1","0","0",",","0","0","0">>, <<"1","m">>}

ParseInputs ==
    {NoneVal} \cup ParseExamples
        \cup {s \in SeqsUpTo(ParseAlphabet, MaxLen) : ExpandedDigits(s) <= MaxDigits}

Unset == [ok |-> FALSE, n |-> -1, d |-> 1]       \* no result yet

\* DealEssentials with the defaults of lines 61-81
DefaultDeal ==
    [loan_amount |-> Rat(100000, 1), market_value |-> Rat(200000, 1),
     property_type |-> <<"r","e","s","i","d","e","n","t","i","a","l">>, geography |-> <<"E","n","g","l","a","n","d">>,
     charge_position |-> <<"1","s","t">>, loan_term_months |-> 12,
     is_regulated |-> FALSE, is_refurb |-> FALSE, cost_of_works |-> NoneNum,
     entity_type |-> <<"i","n","d","i","v","i","d","u","a","l">>, deposit_available |-> NoneNum,
     active_refiners |-> {}]

NoFilter == apply_knockouts(<<>>, DefaultDeal)

IdleParse == in_val = NoneVal /\ out_parsed = Unset
IdleFilter ==
    /\ in_lenders = <<>>
    /\ in_essentials = DefaultDeal
    /\ out_filter = NoFilter
IdleNet ==
    /\ in_lender = <<>>
    /\ in_required_ltv = Rat(0, 1)
    /\ in_term = 12
    /\ out_net_check = NoNetCheck
IdleRefine ==
    /\ in_order = <<>>
    /\ out_options = NoOptions
    /\ prev_options = NoOptions

Sessions == {"s1", "s2"}
NoCall == [session_id |-> "", allowed |-> FALSE]              \* no call yet
NoRequest == [session_id |-> "", message |-> "", outcome |-> ""]
NoResponse == [status |-> 0, response |-> "", rate_limited |-> FALSE]
IdleRate ==
    /\ clock = 0
    /\ rate_limit_store = <<>>
    /\ accepted = [s \in Sessions |-> <<>>]
    /\ calls = 0
    /\ out_limit = NoCall
IdleChat ==
    /\ in_chat = NoRequest
    /\ conversations = [s \in Sessions |-> <<>>]
    /\ ai_calls = 0
    /\ out_chat = NoResponse
IdleServer == IdleRate /\ IdleChat

InitParse ==
    /\ in_val \in ParseInputs
    /\ out_parsed = Unset
    /\ pc = "call"
    /\ IdleNet
    /\ IdleFilter
    /\ IdleRefine
    /\ IdleServer

\* one call of parse_number on the cell
ParseNumber ==
    /\ pc = "call"
    /\ out_parsed' = parse_number(in_val)
    /\ pc' = "done"
    /\ UNCHANGED <<in_val, netVars, filterVars, refineVars, rateVars, chatVars>>

NextParse == ParseNumber

SpecParse == InitParse /\ [][NextParse]_vars

----------------------------------------------------------------------------
(* Inputs of the net-advance specification *)

Absent == <<"<absent>">>       \* marks a column the record does not have

\* the record holding the columns whose cell is not Absent, in the given order
Record(pairs) == SelectSeq(pairs, LAMBDA p : p[2] # Absent)

col_max_ltv_bmv == <<"m","a","x","_","l","t","v","_","b","m","v","_","p","u","r","c","h","a","s","e">>

NetLtvCells == {Absent, NoneVal, <<"7","5","%">>, <<"7","0","%"," ","g","r","o","s","s">>, <<"9","5","%"," ","n","e","t">>, <<"1","0","5","%"," ","n","e","t">>, <<"n","/","a">>}
NetBmvCells == {Absent, <<"9","0","%">>, <<"8","0","%">>, <<"n","/","a">>}
NetRateCells == {Absent, <<"0",".","7","5","-","1",".","0","%">>}
NetFeeCells == {Absent, <<"n","e","g","o","t","i","a","b","l","e">>}
NetMonthsCells == {Absent, <<"1","2">>, <<"D","e","p","e","n","d","s"," ","(","6","+",")">>, <<"n","/","a">>}

NetLenders ==
    {Record(<< <<col_name, <<"L">>>>, <<col_max_ltv_1st, ltv>>, <<col_max_ltv_bmv, bmv>>,
               <<col_rate_band, rate>>, <<col_proc_fee, fee>>, <<col_min_months, months>> >>) :
        ltv \in NetLtvCells, bmv \in NetBmvCells, rate \in NetRateCells,
        fee \in NetFeeCells, months \in NetMonthsCells}

NetRequired == {Rat(-10, 1), Rat(0, 1), Rat(50, 1), Rat(75, 1), Rat(100, 1)}
NetTerms == {3, 12, 98}

InitNet ==
    /\ in_lender \in NetLenders
    /\ in_required_ltv \in NetRequired
    /\ in_term \in NetTerms
    /\ out_net_check = NoNetCheck
    /\ pc = "call"
    /\ IdleParse
    /\ IdleFilter
    /\ IdleRefine
    /\ IdleServer

\* one call of check_net_ltv_shortfall
CheckNet ==
    /\ pc = "call"
    /\ out_net_check' =
           check_net_ltv_shortfall(in_lender, in_required_ltv, Rat(0, 1), in_term, FALSE)
    /\ pc' = "done"
    /\ UNCHANGED <<parseVars, in_lender, in_required_ltv, in_term, filterVars, refineVars, rateVars, chatVars>>

NextNet == CheckNet

SpecNet == InitNet /\ [][NextNet]_vars

----------------------------------------------------------------------------
(* Inputs of the filter specification *)

col_trusts == <<"d","o","_","y","o","u","_","l","e","n","d","_","t","o","_","t","r","u","s","t","s">>
col_trusts_offshore == <<"D","o","_","Y","o","u","_","L","e","n","d","_","T","o","_","T","r","u","s","t","s","_","O","f","f","s","h","o","r","e">>
col_max_ltv_regulated == <<"m","a","x","_","l","t","v","_","r","e","g","u","l","a","t","e","d","_","b","r","i","d","g","i","n","g">>
col_land_with_planning == <<"m","a","x","_","l","t","v","_","l","a","n","d","_","w","i","t","h","_","p","l","a","n","n","i","n","g">>
col_standalone_2nd == <<"m","a","x","_","l","t","v","_","s","t","a","n","d","a","l","o","n","e","_","2","n","d","_","c","h","a","r","g","e","_","r","e","s","i">>
col_supporting_2nd == <<"m","a","x","_","l","t","v","_","s","u","p","p","o","r","t","i","n","g","_","2","n","d","_","c","h","a","r","g","e","_","r","e","s","i","d","e","n","t","i","a","l">>

\* the cells of the lender of the end-to-end scenario of the specification,
\* section 8; the columns marked Absent are left out of its record
BaseRow ==
    << <<col_name, <<"B","a","s","e">>>>,
       <<col_minimum_loan_size, <<"GBP","1","0","0",",","0","0","0">>>>,
       <<col_maximum_loan_size, <<"2","5","0","k">>>>,
       <<col_regulated, <<"Y","e","s">>>>,
       <<col_geographies, <<"S","c","o","t","l","a","n","d">>>>,
       <<col_refurb, <<"Y","e","s">>>>,
       <<col_very_heavy, Absent>>,
       <<col_heavy, Absent>>,
       <<col_medium, Absent>>,
       <<col_trusts, Absent>>,
       <<col_max_ltv_1st, <<"7","5","%">>>>,
       <<col_max_ltv_regulated, <<"7","0","%">>>>,
       <<col_land_with_planning, Absent>>,
       <<col_standalone_2nd, Absent>>,
       <<col_supporting_2nd, Absent>>,
       <<col_max_ltv_bmv, Absent>>,
       <<col_rate_band, <<"0",".","7","5","-","1",".","0","%">>>>,
       <<col_proc_fee, <<"2","%">>>>,
       <<col_min_months, <<"3">>>> >>

BaseLender == Record(BaseRow)

\* the record of the row with one cell replaced
With(row, col, cell) ==
    Record([i \in 1..Len(row) |-> IF row[i][1] = col THEN <<col, cell>> ELSE row[i]])

\* one lender per cell of the list, in the list's order
Variants(row, col, cells) == [i \in 1..Len(cells) |-> With(row, col, cells[i])]

\* a lender that every categorical rule can exclude
StrictLender ==
    Record(<< <<col_name, <<"S","t","r","i","c","t">>>>,
              <<col_minimum_loan_size, <<"GBP","5","0","0",",","0","0","0">>>>,
              <<col_maximum_loan_size, <<"GBP","1","2","0",",","0","0","0">>>>,
              <<col_regulated, <<"N","o">>>>,
              <<col_geographies, <<"S","c","o","t","l","a","n","d",","," ","N","o","r","t","h","e","r","n"," ","I","r","e","l","a","n","d">>>>,
              <<col_refurb, <<"N","o">>>>,
              <<col_very_heavy, <<"N","o">>>>,
              <<col_heavy, <<"N","o">>>>,
              <<col_medium, <<"N","o">>>>,
              <<col_trusts, <<"N","o">>>>,
              <<col_max_ltv_1st, <<"n","/","a">>>>,
              <<col_max_ltv_regulated, <<"N","/","A">>>>,
              <<col_rate_band, <<"0",".","7","5","-","1",".","0","%">>>>,
              <<col_proc_fee, <<"2","%">>>>,
              <<col_min_months, <<"3">>>> >>)

\* a lender with two supporting 2nd charge columns and a supporting equitable one
SecurityLender ==
    With(BaseRow, col_supporting_2nd, <<"7","0","%">>)
        \o << <<<<"m","a","x","_","l","t","v","_","s","u","p","p","o","r","t","i","n","g","_","2","n","d","_","c","h","a","r","g","e","_","c","o","m","m","e","r","c","i","a","l">>, <<"6","5","%">>>>,
              <<<<"m","a","x","_","l","t","v","_","s","u","p","p","o","r","t","i","n","g","_","e","q","u","i","t","a","b","l","e","_","c","h","a","r","g","e">>, <<"6","0","%">>>> >>

\* lenders that publish a day-1 advance above their gross figure
DayOneLenders ==
    << Record(BaseRow \o << <<col_day_1_advance, <<"8","5","%">>>> >>),
       Record(BaseRow \o << <<col_day_1_ltv, <<"8","0","%"," ","n","e","t">>>> >>),
       Record(BaseRow \o << <<col_day_1_advance, <<>>>>, <<col_day_1_ltv, <<"8","5","%">>>> >>) >>

LenderPool ==
    <<BaseLender>>
    \o Variants(BaseRow, col_minimum_loan_size, <<Absent, NoneVal, <<"1",".","5","m">>, <<"k">>>>)
    \o Variants(BaseRow, col_maximum_loan_size, <<Absent, NoneVal, <<"GBP","1","2","0",",","0","0","0">>>>)
    \o Variants(BaseRow, col_regulated, <<Absent, NoneVal, <<>>, <<"N","o">>>>)
    \o Variants(BaseRow, col_geographies, <<Absent, NoneVal, <<"E","n","g","l","a","n","d"," ","a","n","d"," ","W","a","l","e","s">>>>)
    \o Variants(BaseRow, col_refurb, <<Absent, NoneVal, <<>>, <<"N","o">>>>)
    \o Variants(BaseRow, col_very_heavy, <<NoneVal, <<>>, <<"N","o">>, <<"Y","e","s">>>>)
    \o Variants(BaseRow, col_heavy, <<NoneVal, <<"N","o">>>>)
    \o Variants(BaseRow, col_medium, <<<<>>, <<"N","o">>>>)
    \o Variants(BaseRow, col_trusts, <<NoneVal, <<>>, <<"Y","e","s">>, <<"N","o">>, <<"N","o"," ","-"," ","y","e","s"," ","f","o","r"," ","b","a","r","e"," ","t","r","u","s","t","s">>>>)
    \o Variants(BaseRow, col_max_ltv_1st,
           <<Absent, NoneVal, <<>>, <<"n","/","a">>, <<"N","o","t"," ","a","v","a","i","l","a","b","l","e">>, <<"7","5","%"," ","n","e","t">>, <<"6","0","%">>, <<"d","o","n","'","t"," ","l","e","n","d">>>>)
    \o Variants(BaseRow, col_max_ltv_regulated, <<Absent, <<"N","/","A">>>>)
    \o Variants(BaseRow, col_land_with_planning, <<<<"6","0","%">>, <<"N","o","t"," ","a","v","a","i","l","a","b","l","e">>>>)
    \o Variants(BaseRow, col_standalone_2nd, <<<<"6","5","%">>, <<"n","/","a">>>>)
    \o Variants(BaseRow, col_supporting_2nd, <<<<"7","0","%">>>>)
    \o Variants(BaseRow, col_max_ltv_bmv, <<<<"n","/","a">>, <<"9","0","%">>>>)
    \o Variants(BaseRow, col_rate_band, <<Absent, <<"1",".","5","%">>>>)
    \o Variants(BaseRow, col_proc_fee, <<<<"n","e","g","o","t","i","a","b","l","e">>>>)
    \o Variants(BaseRow, col_min_months, <<<<"1","2">>>>)
    \o <<StrictLender>>
    \o <<With(BaseRow, col_trusts, <<"Y","e","s">>) \o << <<col_trusts_offshore, <<"N","o">>>> >>,
         With(BaseRow, col_trusts, <<"N","o">>) \o << <<col_trusts_offshore, <<"Y","e","s">>>> >>,
         << <<col_trusts_offshore, <<"N","o">>>> >> \o With(BaseRow, col_trusts, <<"Y","e","s">>)>>
    \o DayOneLenders

FewEligible == 10     \* line 806: fewer eligible lenders than this is a low count
ManyEligible == 20    \* line 777: at least this many eligible lenders is plenty

\* one lender that takes additional security, the others the base lender
\* under names of their own
LargePool ==
    [i \in 1..ManyEligible |->
        IF i = 1 THEN SecurityLender
        ELSE With(BaseRow, col_name, <<"B","a","s","e"," ">> \o IntToDigits(i))]

\* catalogues on both sides of the two counts
LargeCatalogues ==
    {SubSeq(LargePool, 1, n) :
        n \in {FewEligible - 1, FewEligible, ManyEligible - 1, ManyEligible}}

\* the pool cut into catalogues of n lenders each, for every n up to MaxLenders
Catalogues ==
    LargeCatalogues \cup
    UNION {{SubSeq(LenderPool, n * (i - 1) + 1, n * i) : i \in 1..(Len(LenderPool) \div n)} :
              n \in 1..MaxLenders}

LoanAmounts == {50000, 100000, 130000, 135000, 140000, 300000}
MarketValues == {-200000, 0}
LoanTerms == {6, 12}
PropertyTypes == {<<"r","e","s","i","d","e","n","t","i","a","l">>, <<"l","a","n","d","_","w","i","t","h","_","p","p">>, <<"l","a","n","d","_","n","o","_","p","p">>, <<"c","o","m","m","e","r","c","i","a","l">>}
ChargePositions == {<<"1","s","t">>, <<"2","n","d","_","s","t","a","n","d","a","l","o","n","e">>, <<"2","n","d","_","s","u","p","p","o","r","t","i","n","g">>, <<"e","q","u","i","t","a","b","l","e">>}
WorksCosts == {-50000, 0, 50000, 60000, 80000, 100000, 150000, 200000, 250000}
EntityTypes == {<<"i","n","d","i","v","i","d","u","a","l">>, <<"t","r","u","s","t">>, <<"c","h","a","r","i","t","y">>, <<"l","i","m","i","t","e","d","_","c","o","m","p","a","n","y">>}
Geographies == {<<"E","n","g","l","a","n","d">>, <<"S","c","o","t","l","a","n","d">>}

\* deals that meet several rules at once
StrictDeals ==
    {[DefaultDeal EXCEPT !.loan_amount = Rat(300000, 1), !.is_regulated = reg,
                         !.geography = g, !.is_refurb = TRUE,
                         !.cost_of_works = Rat(w, 1), !.entity_type = e] :
        reg \in BOOLEAN, g \in Geographies, w \in {60000, 150000},
        e \in {<<"i","n","d","i","v","i","d","u","a","l">>, <<"t","r","u","s","t">>}}

\* deals above the net advance of the base lender, on every charge position,
\* with and without refurbishment
HintDeals ==
    {[DefaultDeal EXCEPT !.loan_amount = Rat(135000, 1), !.charge_position = c,
                         !.is_refurb = r, !.cost_of_works = Rat(50000, 1)] :
        c \in ChargePositions, r \in BOOLEAN}

Deals ==
    StrictDeals \cup HintDeals \cup
    {[DefaultDeal EXCEPT !.loan_amount = Rat(a, 1), !.loan_term_months = t] :
        a \in LoanAmounts, t \in LoanTerms}
    \cup {[DefaultDeal EXCEPT !.market_value = Rat(mv, 1), !.is_refurb = r,
                              !.cost_of_works = Rat(50000, 1)] :
        mv \in MarketValues, r \in BOOLEAN}
    \cup {[DefaultDeal EXCEPT !.property_type = p, !.charge_position = c] :
        p \in PropertyTypes, c \in ChargePositions}
    \cup {[DefaultDeal EXCEPT !.is_regulated = TRUE, !.geography = g] : g \in Geographies}
    \cup {[DefaultDeal EXCEPT !.is_refurb = TRUE, !.cost_of_works = w] :
        w \in {NoneNum} \cup {Rat(c, 1) : c \in WorksCosts}}
    \cup {[DefaultDeal EXCEPT !.entity_type = e, !.geography = g] :
        e \in EntityTypes, g \in Geographies}

Init ==
    /\ in_lenders \in Catalogues
    /\ in_essentials \in Deals
    /\ out_filter = NoFilter
    /\ pc = "call"
    /\ IdleParse
    /\ IdleNet
    /\ IdleRefine
    /\ IdleServer

\* POST /api/filter: apply_knockouts over the catalogue, lines 1178-1183
FilterLenders ==
    /\ pc = "call"
    /\ out_filter' = apply_knockouts(in_lenders, in_essentials)
    /\ pc' = "done"
    /\ UNCHANGED <<parseVars, netVars, in_lenders, in_essentials, refineVars, rateVars, chatVars>>

Next == FilterLenders

Spec == Init /\ [][Next]_vars

----------------------------------------------------------------------------
(* Inputs of the refiner specification *)

MaxRefined == 3      \* most lenders in a refiner catalogue
MaxActive == 2       \* most refiners active at once

col_ftb == <<"d","o","_","y","o","u","_","l","e","n","d","_","t","o","_","f","i","r","s","t","_","t","i","m","e","_","b","u","y","e","r","s">>
col_auction == <<"d","e","a","l","_","a","p","p","e","t","i","t","e","_","0","_","w","o","n","_","t","_","c","o","n","s","i","d","e","r","_","1","_","l","o","w","_","a","p","p","e","t","i","t","e","_","2","_","w","i","l","l","_","c","o","n","s","i","d","e">>
col_experience == <<"m","i","n","i","m","u","m","_","b","o","r","r","o","w","e","r","_","e","x","p","e","r","i","e","n","c","e","_","w","i","t","h","_","r","e","f","u","r","b","s">>

RefinerRow(name, ftb, auction, serviced, experience, minimum) ==
    Record(<< <<col_name, name>>, <<col_ftb, ftb>>, <<col_auction, auction>>,
              <<col_serviced, serviced>>, <<col_experience, experience>>,
              <<col_minimum_loan_size, minimum>> >>)

RefinerPool ==
    << RefinerRow(<<"A">>, <<"Y","e","s">>, <<"3">>, <<"Y","e","s">>, <<>>, Absent),
       RefinerRow(<<"B">>, <<"N","o">>, <<" ","2"," ">>, <<"N","o">>, <<"N","o","n","e">>, Absent),
       RefinerRow(<<"C">>, <<"Y","e","s">>, <<>>, Absent, <<"2"," ","p","r","o","j","e","c","t","s">>, Absent),
       RefinerRow(<<"D">>, <<"Y","e","s">>, NoneVal, <<"N","o">>, Absent, Absent),
       RefinerRow(<<"E">>, <<"N","o">>, <<"2",".","0">>, <<"Y","e","s">>, <<>>, Absent),
       RefinerRow(<<"H">>, <<"Y","e","s">>, <<"1">>, <<"Y","e","s">>, <<"1"," ","p","r","o","j","e","c","t">>, <<"GBP","5","0","0",",","0","0","0">>) >>

\* the lenders of the pool at the positions of S, in the pool's order
RECURSIVE pick(_, _, _)
pick(pool, S, k) ==
    IF k = 0 THEN <<>>
    ELSE pick(pool, S, k - 1) \o (IF k \in S THEN <<pool[k]>> ELSE <<>>)

RefinerCatalogues ==
    {pick(RefinerPool, S, Len(RefinerPool)) :
        S \in {T \in SUBSET (1..Len(RefinerPool)) : Cardinality(T) \in 1..MaxRefined}}

RefinerKeys == {"ftb", "auction", "serviced_interest", "first_time_dev"}

\* the orders in which iterating a Python set of strings can yield its members
Orders(S) ==
    {o \in [1..Cardinality(S) -> S] : \A i, j \in 1..Cardinality(S) : i # j => o[i] # o[j]}

InitRefine ==
    /\ in_lenders \in RefinerCatalogues
    /\ in_essentials \in {[DefaultDeal EXCEPT !.is_refurb = r] : r \in BOOLEAN}
    /\ out_filter = NoFilter
    /\ pc = "call"
    /\ IdleParse
    /\ IdleNet
    /\ IdleRefine
    /\ IdleServer

\* a faulty endpoint: the computed LTV is written into the catalogue's records
RefinerOptionsInPlace ==
    /\ pc = "call"
    /\ \E order \in Orders(in_essentials.active_refiners) :
           /\ in_order' = order
           /\ out_options' = get_refiner_options(in_lenders, in_essentials, order)
    /\ prev_options' = out_options
    /\ pc' = "done"
    /\ in_lenders' = [k \in 1..Len(in_lenders) |->
                         Append(in_lenders[k], <<<<"c","a","l","c","u","l","a","t","e","d","_","l","t","v">>, <<"5","0",".","0">>>>)]
    /\ UNCHANGED <<parseVars, netVars, in_essentials, out_filter, rateVars, chatVars>>

\* POST /api/refiner-options: the response to the pending request
RefinerOptions ==
    /\ pc = "call"
    /\ \E order \in Orders(in_essentials.active_refiners) :
           /\ in_order' = order
           /\ out_options' = get_refiner_options(in_lenders, in_essentials, order)
    /\ prev_options' = out_options
    /\ pc' = "done"
    /\ UNCHANGED <<parseVars, netVars, filterVars, rateVars, chatVars>>

\* the client switches further refiner chips on and asks again
SelectRefiners ==
    /\ pc = "done"
    /\ \E K \in SUBSET (RefinerKeys \ in_essentials.active_refiners) :
           /\ K # {}
           /\ Cardinality(in_essentials.active_refiners \cup K) <= MaxActive
           /\ in_essentials' = [in_essentials EXCEPT !.active_refiners = @ \cup K]
    /\ pc' = "call"
    /\ UNCHANGED <<parseVars, netVars, in_lenders, out_filter, refineVars, rateVars, chatVars>>

NextRefine == RefinerOptions \/ SelectRefiners

SpecRefine == InitRefine /\ [][NextRefine]_vars

----------------------------------------------------------------------------
(* The rate limiter and chat specifications *)

MaxTime == 5         \* the last tick of the clock
MaxCalls == 3        \* most calls of check_rate_limit after the initial history
MaxChats == 2        \* most chat requests after the initial history

Times(n, t) == [i \in 1..n |-> t]

\* the clock and the store after the accepted calls of an earlier hour: none;
\* one session one short of the limit; at the limit; at the limit with one
\* call older than the others; both sessions busy
Histories ==
    { [clock |-> 0, store |-> <<>>],
      [clock |-> 0, store |-> [s \in {"s1"} |-> Times(RATE_LIMIT - 1, 0)]],
      [clock |-> 0, store |-> [s \in {"s1"} |-> Times(RATE_LIMIT, 0)]],
      [clock |-> 2, store |-> [s \in {"s1"} |-> <<0>> \o Times(RATE_LIMIT - 1, 2)]],
      [clock |-> 1, store |-> [s \in Sessions |->
                                 IF s = "s1" THEN Times(RATE_LIMIT, 0)
                                 ELSE Times(RATE_LIMIT - 1, 1)]] }

InitHistory ==
    \E h \in Histories :
        /\ clock = h.clock
        /\ rate_limit_store = h.store
        /\ accepted = [s \in Sessions |-> stored(h.store, s)]
    /\ calls = 0
    /\ out_limit = NoCall

InitRate ==
    /\ InitHistory
    /\ pc = "serve"
    /\ IdleChat
    /\ IdleParse
    /\ IdleNet
    /\ IdleFilter
    /\ IdleRefine

\* lines 38-55: one call of check_rate_limit at the present reading of the clock
CallRateLimit(session_id) ==
    /\ rate_limit_store' = store_after(rate_limit_store, session_id, clock)
    /\ out_limit' = [session_id |-> session_id,
                     allowed |-> check_rate_limit(rate_limit_store, session_id, clock)]
    /\ accepted' = IF check_rate_limit(rate_limit_store, session_id, clock)
                   THEN [accepted EXCEPT ![session_id] = Append(@, clock)]
                   ELSE accepted
    /\ calls' = calls + 1
    /\ UNCHANGED clock

CheckRateLimit ==
    /\ calls < MaxCalls
    /\ \E session_id \in Sessions : CallRateLimit(session_id)
    /\ UNCHANGED <<parseVars, netVars, filterVars, refineVars, pc, chatVars>>

\* line 40: datetime.now() reads a later time
Tick ==
    /\ clock < MaxTime
    /\ clock' = clock + 1
    /\ UNCHANGED <<parseVars, netVars, filterVars, refineVars, pc, chatVars,
                   rate_limit_store, accepted, calls, out_limit>>

NextRate == CheckRateLimit \/ Tick

SpecRate == InitRate /\ [][NextRate]_vars

UserMessages == {"Which lenders take a second charge?"}
Replies == {"Three of them do."}

InitChat ==
    /\ InitHistory
    /\ IdleChat
    /\ pc = "serve"
    /\ IdleParse
    /\ IdleNet
    /\ IdleFilter
    /\ IdleRefine

\* POST /api/chat, lines 1554-1570
Chat ==
    /\ calls < MaxChats
    /\ \E session_id \in Sessions, message \in UserMessages, reply \in Replies,
          outcome \in Outcomes :
           /\ CallRateLimit(session_id)
           /\ in_chat' = [session_id |-> session_id, message |-> message, outcome |-> outcome]
           /\ IF check_rate_limit(rate_limit_store, session_id, clock)
              THEN /\ conversations' =
                          [conversations EXCEPT ![session_id] =
                              chat_with_ai(@, message, reply, outcome).history]
                   /\ ai_calls' = ai_calls +
                          (IF chat_with_ai(conversations[session_id], message, reply,
                                           outcome).called THEN 1 ELSE 0)
                   /\ out_chat' = chat_response(TRUE,
                          chat_with_ai(conversations[session_id], message, reply, outcome))
              ELSE /\ out_chat' = chat_response(FALSE, NoResponse)
                   /\ UNCHANGED <<conversations, ai_calls>>
    /\ UNCHANGED <<parseVars, netVars, filterVars, refineVars, pc>>

NextChat == Chat \/ Tick

SpecChat == InitChat /\ [][NextChat]_vars

----------------------------------------------------------------------------
(* Claims about the value parsers *)

\* a plain decimal amount: digits with at most one dot
IsAmount(s) == s # <<>> /\ (\A i \in 1..Len(s) : s[i] \in Digits \cup {"."}) /\ float(s).ok

Front(s) == SubSeq(s, 1, Len(s) - 1)

\* C10: parse_number strips currency symbols and thousand separators and scales
\* a trailing k by 1,000 and a trailing m by 1,000,000, also for decimal
\* amounts ('1.5m' gives 1500000); a cell with no numeric token gives None,
\* never zero.
C10_ParseNumberScales ==
    pc = "done" =>
        /\ (in_val = <<"GBP","1",",","2","5","0",",","0","0","0">> => out_parsed = Rat(1250000, 1))
        /\ (in_val = <<"2","5","0","k">> => out_parsed = Rat(250000, 1))
        /\ (in_val = <<"1",".","5","m">> => out_parsed = Rat(1500000, 1))
        /\ (in_val # NoneVal /\ Len(in_val) >= 2 /\ IsAmount(Front(in_val)) =>
               /\ (in_val[Len(in_val)] \in {"k", "K"} =>
                      out_parsed = RMul(float(Front(in_val)), Rat(1000, 1)))
               /\ (in_val[Len(in_val)] \in {"m", "M"} =>
                      out_parsed = RMul(float(Front(in_val)), Rat(1000000, 1))))
        /\ (in_val = NoneVal \/ CountOf(in_val, Digits) = 0 => out_parsed = NoneNum)

----------------------------------------------------------------------------
(* Claims about the net-advance estimator *)

\* C3: check_net_ltv_shortfall classifies by shortfall_pct for every input that
\* has an estimate: above 5 fails; above 0 and up to 5 (5 included) warns and
\* passes; below -5 is comfortable; from -5 to 0 passes with no flag.
C3_ClassifiedByShortfall ==
    pc = "done" /\ NumTruthy(gross_ltv_of(in_lender)) =>
        LET s == shortfall_pct_of(in_required_ltv, estimated_net_of(in_lender, in_term))
            r == out_net_check
        IN  /\ (RGt(s, Rat(5, 1)) => ~r.passes)
            /\ (RGt(s, Rat(0, 1)) /\ RLe(s, Rat(5, 1)) => r.warning /\ r.passes)
            /\ (RLt(s, Rat(-5, 1)) => r.comfortable)
            /\ (RGe(s, Rat(-5, 1)) /\ RLe(s, Rat(0, 1)) =>
                   r.passes /\ ~r.warning /\ ~r.comfortable)

\* C11: in every result of check_net_ltv_shortfall at most one of
\* passes = false, warning = true and comfortable = true holds, and message
\* is not None exactly when the outcome is fail or tight.
C11_OutcomesExclusive ==
    pc = "done" =>
        /\ ~(~out_net_check.passes /\ out_net_check.warning)
        /\ ~(~out_net_check.passes /\ out_net_check.comfortable)
        /\ ~(out_net_check.warning /\ out_net_check.comfortable)
        /\ (out_net_check.message # NoneVal
               <=> (~out_net_check.passes \/ out_net_check.warning))

\* a check that failed, with its message
C11_Witness ==
    /\ pc = "done"
    /\ in_lender # <<>>
    /\ ~out_net_check.passes
    /\ out_net_check.message = msg_insufficient(in_term)

----------------------------------------------------------------------------
\* the classification a net check result carries
net_class(r) ==
    IF ~r.passes THEN "fail"
    ELSE IF r.warning THEN "tight"
    ELSE IF r.comfortable THEN "comfortable"
    ELSE "pass"

\* the lenders that differ from a lender at most in rate band, proc fee and
\* minimum months of interest
same_ltv_cells(lender) ==
    {other \in NetLenders :
        /\ get(other, col_max_ltv_1st, Absent) = get(lender, col_max_ltv_1st, Absent)
        /\ get(other, col_max_ltv_bmv, Absent) = get(lender, col_max_ltv_bmv, Absent)}

\* C19: for a lender detected as a net lender the classification is the one of
\* the parsed LTV figure taken as the estimate, and it is the same for every
\* rate band, proc fee, lender minimum months and loan term.
C19_NetLenderIgnoresDeductions ==
    pc = "done" /\ out_net_check.is_net_lender =>
        /\ NumTruthy(gross_ltv_of(in_lender)) =>
               LET s == shortfall_pct_of(in_required_ltv, gross_ltv_of(in_lender))
               IN  net_class(out_net_check) =
                       IF RGt(s, Rat(5, 1)) THEN "fail"
                       ELSE IF RGt(s, Rat(0, 1)) THEN "tight"
                       ELSE IF RLt(s, Rat(-5, 1)) THEN "comfortable"
                       ELSE "pass"
        /\ \A other \in same_ltv_cells(in_lender), term \in NetTerms :
               LET r == check_net_ltv_shortfall(other, in_required_ltv, Rat(0, 1), term, FALSE)
               IN  r.is_net_lender /\ net_class(r) = net_class(out_net_check)

\* a net lender with a rate band and a term of 98 months whose figure falls short
C19_Witness ==
    /\ pc = "done"
    /\ out_net_check.is_net_lender
    /\ HasKey(in_lender, col_rate_band)
    /\ in_term = 98
    /\ ~out_net_check.passes

\* the estimate for the lender of the state at a loan term
estimate_at(term) ==
    estimate_net_from_gross(gross_ltv_of(in_lender),
        get(in_lender, col_rate_band, <<>>), get(in_lender, col_proc_fee, <<>>),
        term, get(in_lender, col_min_months, <<>>))

\* the lender minimum the months cells of the model stand for
stated_minimum ==
    IF get(in_lender, col_min_months, Absent) = <<"1","2">> THEN 12 ELSE 3

TermProbe == <<0, 2, 3, 4, 11, 12, 13, 98>>   \* loan terms around the minimums 3 and 12

\* C20: for the lender of the state, the estimate is the same for every loan
\* term up to the lender minimum (3 when the cell is absent, has no number or
\* says 'depends'), is lower for a longer term above the minimum, and so never
\* increases when the loan term increases.
C20_InterestForLongerOfTermAndMinimum ==
    pc = "done" =>
        \A i \in 1..(Len(TermProbe) - 1) :
            LET shorter == estimate_at(TermProbe[i])
                longer == estimate_at(TermProbe[i + 1])
            IN  /\ RLe(longer, shorter)
                /\ TermProbe[i + 1] <= stated_minimum => longer = shorter
                /\ TermProbe[i + 1] > stated_minimum /\ NumTruthy(gross_ltv_of(in_lender)) =>
                       RLt(longer, shorter)

\* a gross lender with a minimum of 12 months asked for a term of 3 months:
\* its estimate is that of 12 months and falls at 13
C20_Witness ==
    /\ pc = "done"
    /\ ~out_net_check.is_net_lender
    /\ NumTruthy(gross_ltv_of(in_lender))
    /\ get(in_lender, col_min_months, Absent) = <<"1","2">>
    /\ in_term = 3
    /\ estimate_at(in_term) = estimate_at(12)
    /\ RLt(estimate_at(13), estimate_at(in_term))

----------------------------------------------------------------------------
(* Claims about the knockout filter *)

\* the derived copies of a response, eligible first
results_of(response) == response.eligible \o response.excluded

Range(xs) == {xs[i] : i \in 1..Len(xs)}

\* C1: apply_knockouts places each input lender in exactly one of eligible and
\* excluded, so that summary.total = summary.eligible + summary.excluded, and
\* a lender is in excluded if and only if its exclusion_reasons are non-empty.
C1_PartitionByReasons ==
    pc = "done" =>
        /\ out_filter.summary.total = Len(in_lenders)
        /\ out_filter.summary.eligible = Len(out_filter.eligible)
        /\ out_filter.summary.excluded = Len(out_filter.excluded)
        /\ out_filter.summary.total = out_filter.summary.eligible + out_filter.summary.excluded
        /\ \A k \in 1..Len(in_lenders) :
               Cardinality({i \in 1..Len(results_of(out_filter)) :
                               results_of(out_filter)[i].lender = in_lenders[k]}) = 1
        /\ \A i \in 1..Len(out_filter.excluded) :
               out_filter.excluded[i].exclusion_reasons # <<>>
        /\ \A i \in 1..Len(out_filter.eligible) :
               out_filter.eligible[i].exclusion_reasons = <<>>

\* a response that holds both an eligible lender and one excluded by a
\* categorical rule
C1_Witness ==
    /\ pc = "done"
    /\ out_filter.eligible # <<>>
    /\ \E i \in 1..Len(out_filter.excluded) : ~out_filter.excluded[i].has_net_check_result

\* what apply_knockouts adds to a lender's columns
added_fields(r) ==
    <<r.exclusion_reasons, r.calculated_ltv, r.works_ratio, r.max_gross_ltv,
      r.net_ltv_warning, r.net_ltv_comfortable, r.has_net_check_result, r.net_check_result>>

same_net_class(a, b) ==
    /\ a.has_net_check_result /\ b.has_net_check_result
    /\ net_class(a.net_check_result) = net_class(b.net_check_result)
    /\ a.net_check_result.is_net_lender = b.net_check_result.is_net_lender

larger_loans(essentials) ==
    {[essentials EXCEPT !.loan_amount = Rat(a, 1)] :
        a \in {b \in LoanAmounts : RGt(Rat(b, 1), essentials.loan_amount)}}

\* C5 as stated: every lender excluded for a loan amount is also excluded for
\* every larger loan amount, the rest of the deal and the catalogue unchanged.
C5_LargerLoanKeepsExcluded ==
    pc = "done" =>
        \A i \in 1..Len(out_filter.excluded) : \A larger \in larger_loans(in_essentials) :
            is_excluded(lender_result_of(out_filter.excluded[i].lender, larger))

\* C5: every lender excluded for a loan amount by any rule other than the
\* minimum loan size is also excluded for every larger loan amount, the rest
\* of the deal and the catalogue unchanged.
C5_LargerLoanKeepsExcludedAboveMinimum ==
    pc = "done" =>
        \A i \in 1..Len(out_filter.excluded) : \A larger \in larger_loans(in_essentials) :
            Range(out_filter.excluded[i].exclusion_reasons)
                    \ Range(min_loan_reasons(out_filter.excluded[i].lender, in_essentials)) # {}
                => is_excluded(lender_result_of(out_filter.excluded[i].lender, larger))

\* a lender the net check excluded, for a deal that has a larger loan to ask for
C5_Witness ==
    /\ pc = "done"
    /\ larger_loans(in_essentials) # {}
    /\ \E i \in 1..Len(out_filter.excluded) :
           /\ out_filter.excluded[i].has_net_check_result
           /\ ~out_filter.excluded[i].net_check_result.passes

\* the rule a reason text comes from, by its wording: 1 minimum loan, 2 maximum
\* loan, 3 regulated, 4 geography, 5 refurbishment offered, 6 works tier,
\* 7 entity type, 8 availability, 9 net advance; 0 for any other text
reason_rule(reason) ==
    CASE StartsWith(reason, <<"B","e","l","o","w"," ","m","i","n","i","m","u","m"," ","l","o","a","n">>) -> 1
      [] StartsWith(reason, <<"A","b","o","v","e"," ","m","a","x","i","m","u","m"," ","l","o","a","n">>) -> 2
      [] reason = <<"D","o","e","s","n","'","t"," ","o","f","f","e","r"," ","r","e","g","u","l","a","t","e","d"," ","b","r","i","d","g","i","n","g">> -> 3
      [] StartsWith(reason, <<"D","o","e","s","n","'","t"," ","l","e","n","d"," ","i","n"," ">>) -> 4
      [] reason = <<"D","o","e","s","n","'","t"," ","o","f","f","e","r"," ","r","e","f","u","r","b","i","s","h","m","e","n","t"," ","b","r","i","d","g","i","n","g">> -> 5
      [] StartsWith(reason, <<"D","o","e","s","n","'","t"," ","f","u","n","d"," ">>) -> 6
      [] StartsWith(reason, <<"D","o","e","s","n","'","t"," ","l","e","n","d"," ","t","o"," ">>) -> 7
      [] StartsWith(reason, <<"D","o","e","s","n","'","t"," ","l","e","n","d"," ","o","n"," ">>) -> 8
      [] reason \in {<<"D","o","e","s","n","'","t"," ","o","f","f","e","r"," ","s","t","a","n","d","a","l","o","n","e"," ","2","n","d"," ","c","h","a","r","g","e">>,
                     <<"D","o","e","s","n","'","t"," ","o","f","f","e","r"," ","s","u","p","p","o","r","t","i","n","g"," ","2","n","d"," ","c","h","a","r","g","e">>,
                     <<"D","o","e","s","n","'","t"," ","o","f","f","e","r"," ","e","q","u","i","t","a","b","l","e"," ","c","h","a","r","g","e","s">>} -> 8
      [] StartsWith(reason, <<"N","e","t"," ","a","d","v","a","n","c","e"," ">>) -> 9
      [] OTHER -> 0

\* the reasons of the k-th categorical rule, taken alone
rule_reasons(k, lender, essentials) ==
    CASE k = 1 -> min_loan_reasons(lender, essentials)
      [] k = 2 -> max_loan_reasons(lender, essentials)
      [] k = 3 -> regulated_reasons(lender, essentials)
      [] k = 4 -> geography_reasons(lender, essentials)
      [] k = 5 -> refurb_reasons(lender, essentials)
      [] k = 6 -> works_tier_reasons(lender, essentials)
      [] k = 7 -> entity_reasons(lender, essentials)
      [] k = 8 -> availability_reasons(lender, essentials)

\* C14: in every lender's exclusion_reasons each rule has at most one reason and
\* the reasons stand in the order minimum loan, maximum loan, regulated,
\* geography, refurbishment offered, works tier, entity type, availability; a
\* rule that fails for the lender has its reason in the list whatever the
\* other rules found.
C14_ReasonsCumulativeOrdered ==
    pc = "done" =>
        \A r \in Range(results_of(out_filter)) :
            LET reasons == r.exclusion_reasons
            IN  /\ \A i \in 1..Len(reasons) : reason_rule(reasons[i]) \in 1..9
                /\ \A i, j \in 1..Len(reasons) :
                       i < j => reason_rule(reasons[i]) < reason_rule(reasons[j])
                /\ \A k \in 1..8 :
                       rule_reasons(k, r.lender, in_essentials) # <<>> =>
                           \E i \in 1..Len(reasons) :
                               /\ reason_rule(reasons[i]) = k
                               /\ <<reasons[i]>> = rule_reasons(k, r.lender, in_essentials)

\* a lender excluded by all eight categorical rules at once
C14_Witness ==
    /\ pc = "done"
    /\ \E r \in Range(out_filter.excluded) :
           {reason_rule(r.exclusion_reasons[i]) : i \in 1..Len(r.exclusion_reasons)} = 1..8

\* C15: the net LTV check has run for a lender only if no categorical rule gave
\* a reason and the resolved LTV cell parsed to a non-zero number; a net
\* advance reason is the only entry of the lender's exclusion_reasons; a lender
\* that carries net_ltv_warning or net_ltv_comfortable is in the eligible list.
C15_NetCheckLast ==
    pc = "done" =>
        /\ \A r \in Range(results_of(out_filter)) :
               /\ r.has_net_check_result =>
                      /\ categorical_reasons(r.lender, in_essentials) = <<>>
                      /\ NumTruthy(max_ltv_of(r.lender, in_essentials))
               /\ \A i \in 1..Len(r.exclusion_reasons) :
                      reason_rule(r.exclusion_reasons[i]) = 9 =>
                          /\ Len(r.exclusion_reasons) = 1
                          /\ r.has_net_check_result
                          /\ ~r.net_check_result.passes
        /\ \A r \in Range(out_filter.excluded) :
               r.net_ltv_warning = NoneVal /\ ~r.net_ltv_comfortable

\* one lender excluded by the net check beside one that passes it with a warning
\* or comfortably
C15_Witness ==
    /\ pc = "done"
    /\ \E r \in Range(out_filter.excluded) : reason_rule(r.exclusion_reasons[1]) = 9
    /\ \E r \in Range(out_filter.eligible) :
           r.net_ltv_warning # NoneVal \/ r.net_ltv_comfortable

\* the wording of the availability reason for a deal
availability_message(essentials) ==
    IF essentials.property_type = <<"l","a","n","d","_","w","i","t","h","_","p","p">> THEN <<"D","o","e","s","n","'","t"," ","l","e","n","d"," ","o","n"," ","l","a","n","d"," ","w","i","t","h"," ","p","l","a","n","n","i","n","g">>
    ELSE IF essentials.property_type = <<"l","a","n","d","_","n","o","_","p","p">>
    THEN <<"D","o","e","s","n","'","t"," ","l","e","n","d"," ","o","n"," ","l","a","n","d"," ","w","i","t","h","o","u","t"," ","p","l","a","n","n","i","n","g">>
    ELSE IF essentials.charge_position = <<"2","n","d","_","s","t","a","n","d","a","l","o","n","e">>
    THEN <<"D","o","e","s","n","'","t"," ","o","f","f","e","r"," ","s","t","a","n","d","a","l","o","n","e"," ","2","n","d"," ","c","h","a","r","g","e">>
    ELSE IF essentials.charge_position = <<"2","n","d","_","s","u","p","p","o","r","t","i","n","g">>
    THEN <<"D","o","e","s","n","'","t"," ","o","f","f","e","r"," ","s","u","p","p","o","r","t","i","n","g"," ","2","n","d"," ","c","h","a","r","g","e">>
    ELSE IF essentials.charge_position = <<"e","q","u","i","t","a","b","l","e">> THEN <<"D","o","e","s","n","'","t"," ","o","f","f","e","r"," ","e","q","u","i","t","a","b","l","e"," ","c","h","a","r","g","e","s">>
    ELSE <<"D","o","e","s","n","'","t"," ","l","e","n","d"," ","o","n"," ">> \o replace(essentials.property_type, <<"_">>, <<" ">>)

\* a cell that says the lender does not offer the product
names_sentinel(cell) ==
    \/ Contains(<<"n","o","t"," ","a","v","a","i","l","a","b","l","e">>, strip(lower(cell)))
    \/ Contains(<<"n","/","a">>, strip(lower(cell)))
    \/ Contains(<<"d","o","n","'","t"," ","l","e","n","d">>, strip(lower(cell)))

is_blank(cell) == cell # NoneVal /\ strip(cell) = <<>>

\* the availability reasons among a lender's exclusion reasons
availability_among(reasons) == SelectSeq(reasons, LAMBDA reason : reason_rule(reason) = 8)

\* C16: a lender whose cell in the LTV column resolved for the deal holds 'not
\* available', 'n/a', "don't lend" or a blank value has exactly one
\* availability reason, worded for the deal's property type or charge position.
C16_SentinelsExclude ==
    pc = "done" =>
        \A r \in Range(results_of(out_filter)) :
            LET i == LtvCol(r.lender, in_essentials)
            IN  i # 0 /\ (is_blank(r.lender[i][2])
                          \/ (r.lender[i][2] # NoneVal /\ names_sentinel(r.lender[i][2]))) =>
                    availability_among(r.exclusion_reasons)
                        = <<availability_message(in_essentials)>>

\* the lender column the works tier of a ratio consults; empty when none
tier_field(works_ratio) ==
    IF RGt(works_ratio, Rat(100, 1)) THEN col_very_heavy
    ELSE IF RGt(works_ratio, Rat(50, 1)) THEN col_heavy
    ELSE IF RGt(works_ratio, Rat(30, 1)) THEN col_medium
    ELSE <<>>

tier_message(works_ratio) ==
    IF RGt(works_ratio, Rat(100, 1)) THEN <<"D","o","e","s","n","'","t"," ","f","u","n","d"," ","v","e","r","y"," ","h","e","a","v","y"," ","w","o","r","k","s"," ","(",">","1","0","0","%"," ","r","a","t","i","o",")">>
    ELSE IF RGt(works_ratio, Rat(50, 1)) THEN <<"D","o","e","s","n","'","t"," ","f","u","n","d"," ","h","e","a","v","y"," ","w","o","r","k","s"," ","(","5","0","-","1","0","0","%"," ","r","a","t","i","o",")">>
    ELSE <<"D","o","e","s","n","'","t"," ","f","u","n","d"," ","m","e","d","i","u","m"," ","w","o","r","k","s"," ","(","3","0","-","5","0","%"," ","r","a","t","i","o",")">>

\* the reasons of one rule among a lender's exclusion reasons
reasons_of_rule(k, reasons) == SelectSeq(reasons, LAMBDA reason : reason_rule(reason) = k)

\* the works tier reasons of every lender are those of the single tier of the ratio
single_tier_decides ==
    \A r \in Range(results_of(out_filter)) :
        LET field == tier_field(r.works_ratio)
            tiers == reasons_of_rule(6, r.exclusion_reasons)
        IN  /\ Len(tiers) <= 1
            /\ tiers # <<>> <=>
                   /\ in_essentials.is_refurb
                   /\ field # <<>>
                   /\ Contains(<<"n","o">>, lower(str(get(r.lender, field, <<>>))))
            /\ tiers # <<>> => tiers = <<tier_message(r.works_ratio)>>
            /\ ~in_essentials.is_refurb =>
                   reasons_of_rule(5, r.exclusion_reasons) = <<>>

\* C17 as stated: works_ratio is non-zero only for a refurbishment deal with a
\* positive cost of works and a positive market value; a lender gets at most
\* one works tier reason, decided by the single tier of the ratio (above 100
\* very heavy, above 50 heavy, above 30 medium, otherwise none); a deal that is
\* not a refurbishment gets no refurbishment and no works tier reason.
C17_WorksTiersPositiveCost ==
    pc = "done" =>
        /\ out_filter.summary.works_ratio.n # 0 =>
               /\ in_essentials.is_refurb
               /\ in_essentials.cost_of_works.ok /\ in_essentials.cost_of_works.n > 0
               /\ in_essentials.market_value.n > 0
        /\ single_tier_decides

\* C17: works_ratio is non-zero only for a refurbishment deal with a cost of
\* works other than null and zero and a positive market value (a negative cost
\* gives a negative ratio); a lender gets at most one works tier reason,
\* decided by the single tier of the ratio (above 100 very heavy, above 50
\* heavy, above 30 medium, otherwise none, a negative ratio included); a deal
\* that is not a refurbishment gets no refurbishment and no works tier reason.
C17_WorksTiers ==
    pc = "done" =>
        /\ out_filter.summary.works_ratio.n # 0 =>
               /\ in_essentials.is_refurb
               /\ in_essentials.cost_of_works.ok /\ in_essentials.cost_of_works.n # 0
               /\ in_essentials.market_value.n > 0
        /\ single_tier_decides

\* a lender that declines all three tiers, excluded for the heavy tier alone
C17_Witness ==
    /\ pc = "done"
    /\ in_essentials.is_refurb
    /\ RGt(out_filter.summary.works_ratio, Rat(50, 1))
    /\ ~RGt(out_filter.summary.works_ratio, Rat(100, 1))
    /\ \E r \in Range(out_filter.excluded) :
           /\ Contains(<<"n","o">>, lower(str(get(r.lender, col_very_heavy, <<>>))))
           /\ Contains(<<"n","o">>, lower(str(get(r.lender, col_medium, <<>>))))
           /\ reasons_of_rule(6, r.exclusion_reasons)
                  = << <<"D","o","e","s","n","'","t"," ","f","u","n","d"," ","h","e","a","v","y"," ","w","o","r","k","s"," ","(","5","0","-","1","0","0","%"," ","r","a","t","i","o",")">> >>

\* the positions of the lender's columns whose normalised name contains the
\* logical field of the entity type; empty for an entity type outside the map
entity_matches(lender, entity_type) ==
    IF entity_knockouts(entity_type) = <<>> THEN {}
    ELSE {k \in 1..Len(lender) :
             Contains(replace(entity_knockouts(entity_type), <<"_">>, <<>>),
                      lower(replace(lender[k][1], <<"_">>, <<>>)))}

\* C18: the entity reason of a lender is the one its record gives when cut
\* after the first column that matches the logical field of the deal's entity
\* type, so no later matching column causes or prevents it; a record with no
\* matching column has no entity reason, and neither has any lender for an
\* entity type outside the map (individual, limited_company).
C18_FirstMatchWins ==
    pc = "done" =>
        \A r \in Range(results_of(out_filter)) :
            LET matches == entity_matches(r.lender, in_essentials.entity_type)
                found == reasons_of_rule(7, r.exclusion_reasons)
            IN  /\ matches = {} => found = <<>>
                /\ in_essentials.entity_type \in {<<"i","n","d","i","v","i","d","u","a","l">>, <<"l","i","m","i","t","e","d","_","c","o","m","p","a","n","y">>} =>
                       matches = {} /\ found = <<>>
                /\ matches # {} =>
                       LET first == FirstOf(matches)
                           cell == lower(str(r.lender[first][2]))
                       IN  /\ found = entity_reasons(SubSeq(r.lender, 1, first), in_essentials)
                           /\ found # <<>> <=>
                                  Contains(<<"n","o">>, cell) /\ ~Contains(<<"y","e","s">>, cell)
                           /\ found # <<>> =>
                                  found = << <<"D","o","e","s","n","'","t"," ","l","e","n","d"," ","t","o"," ">>
                                                \o in_essentials.entity_type >>

\* two lenders with two matching columns that disagree: one excluded on its
\* first column although a later one accepts, one eligible on its first
\* column although a later one declines
C18_Witness ==
    /\ pc = "done"
    /\ \E r \in Range(out_filter.excluded) :
           /\ Cardinality(entity_matches(r.lender, in_essentials.entity_type)) = 2
           /\ reasons_of_rule(7, r.exclusion_reasons) # <<>>
           /\ \E k \in entity_matches(r.lender, in_essentials.entity_type) :
                  Contains(<<"y","e","s">>, lower(str(r.lender[k][2])))
    /\ \E r \in Range(results_of(out_filter)) :
           /\ Cardinality(entity_matches(r.lender, in_essentials.entity_type)) = 2
           /\ reasons_of_rule(7, r.exclusion_reasons) = <<>>
           /\ \E k \in entity_matches(r.lender, in_essentials.entity_type) :
                  r.lender[k][2] = <<"N","o">>

\* C13: every lender that apply_knockouts excludes for a deal that is not
\* regulated is also excluded for the same deal with is_regulated = true.
C13_RegulatedKeepsExcluded ==
    pc = "done" /\ ~in_essentials.is_regulated =>
        \A i \in 1..Len(out_filter.excluded) :
            is_excluded(lender_result_of(out_filter.excluded[i].lender,
                                         [in_essentials EXCEPT !.is_regulated = TRUE]))

\* a column the record does not have, or has with a null or blank cell
no_value(lender, col) == ~HasKey(lender, col) \/ get(lender, col, <<>>) \in {NoneVal, <<>>}

\* the column the entity rule reads, lines 446-449; 0 when the record has none
entity_column(lender, essentials) ==
    IF entity_knockouts(essentials.entity_type) = <<>> THEN 0
    ELSE FirstOf({k \in 1..Len(lender) :
             Contains(replace(entity_knockouts(essentials.entity_type), <<"_">>, <<>>),
                      lower(replace(lender[k][1], <<"_">>, <<>>)))})

\* C7: a lender whose regulated-bridging, refurbishment-offered, works-tier
\* or entity-acceptance attribute is missing, null or blank receives no
\* exclusion reason from that rule.
C7_NoValueNoReason ==
    pc = "done" =>
        \A i \in 1..Len(results_of(out_filter)) :
            /\ no_value(results_of(out_filter)[i].lender, col_regulated) =>
                   <<"D","o","e","s","n","'","t"," ","o","f","f","e","r"," ","r","e","g","u","l","a","t","e","d"," ","b","r","i","d","g","i","n","g">>
                       \notin Range(results_of(out_filter)[i].exclusion_reasons)
            /\ no_value(results_of(out_filter)[i].lender, col_refurb) =>
                   <<"D","o","e","s","n","'","t"," ","o","f","f","e","r"," ","r","e","f","u","r","b","i","s","h","m","e","n","t"," ","b","r","i","d","g","i","n","g">>
                       \notin Range(results_of(out_filter)[i].exclusion_reasons)
            /\ no_value(results_of(out_filter)[i].lender, col_very_heavy) =>
                   <<"D","o","e","s","n","'","t"," ","f","u","n","d"," ","v","e","r","y"," ","h","e","a","v","y"," ","w","o","r","k","s"," ","(",">","1","0","0","%"," ","r","a","t","i","o",")">>
                       \notin Range(results_of(out_filter)[i].exclusion_reasons)
            /\ no_value(results_of(out_filter)[i].lender, col_heavy) =>
                   <<"D","o","e","s","n","'","t"," ","f","u","n","d"," ","h","e","a","v","y"," ","w","o","r","k","s"," ","(","5","0","-","1","0","0","%"," ","r","a","t","i","o",")">>
                       \notin Range(results_of(out_filter)[i].exclusion_reasons)
            /\ no_value(results_of(out_filter)[i].lender, col_medium) =>
                   <<"D","o","e","s","n","'","t"," ","f","u","n","d"," ","m","e","d","i","u","m"," ","w","o","r","k","s"," ","(","3","0","-","5","0","%"," ","r","a","t","i","o",")">>
                       \notin Range(results_of(out_filter)[i].exclusion_reasons)
            /\ (\/ entity_column(results_of(out_filter)[i].lender, in_essentials) = 0
                \/ results_of(out_filter)[i].lender[
                       entity_column(results_of(out_filter)[i].lender, in_essentials)][2]
                           \in {NoneVal, <<>>}) =>
                   (<<"D","o","e","s","n","'","t"," ","l","e","n","d"," ","t","o"," ">> \o in_essentials.entity_type)
                       \notin Range(results_of(out_filter)[i].exclusion_reasons)

\* C9: a deal whose market value is not positive is answered with
\* summary.ltv = 0 and works_ratio = 0, and no lender receives a net-advance
\* exclusion reason, a tight warning or a comfortable flag.
C9_NoMarketValueNoNetVerdict ==
    pc = "done" /\ in_essentials.market_value.n <= 0 =>
        /\ out_filter.summary.total = Len(in_lenders)
        /\ out_filter.summary.ltv = Rat(0, 1)
        /\ out_filter.summary.works_ratio = Rat(0, 1)
        /\ \A i \in 1..Len(results_of(out_filter)) :
               /\ results_of(out_filter)[i].calculated_ltv = Rat(0, 1)
               /\ results_of(out_filter)[i].works_ratio = Rat(0, 1)
               /\ msg_insufficient(in_essentials.loan_term_months)
                      \notin Range(results_of(out_filter)[i].exclusion_reasons)
               /\ results_of(out_filter)[i].net_ltv_warning = NoneVal
               /\ ~results_of(out_filter)[i].net_ltv_comfortable
               /\ results_of(out_filter)[i].has_net_check_result =>
                      net_class(results_of(out_filter)[i].net_check_result) = "pass"

\* a refurbishment deal with a negative market value and a cost of works, for
\* which the net check of some lender ran
C9_Witness ==
    /\ pc = "done"
    /\ in_essentials.market_value.n < 0
    /\ in_essentials.is_refurb
    /\ \E i \in 1..Len(results_of(out_filter)) :
           /\ results_of(out_filter)[i].has_net_check_result
           /\ NumTruthy(estimated_net_of(results_of(out_filter)[i].lender,
                                         in_essentials.loan_term_months))

\* the deals that differ from a deal in one of property type, charge position,
\* regulated flag, refurbishment flag and borrower deposit
frame_variants(e) ==
    {[e EXCEPT !.property_type = p] : p \in PropertyTypes}
        \cup {[e EXCEPT !.charge_position = c] : c \in ChargePositions}
        \cup {[e EXCEPT !.is_regulated = g] : g \in BOOLEAN}
        \cup {[e EXCEPT !.is_refurb = f] : f \in BOOLEAN}
        \cup {[e EXCEPT !.deposit_available = d] : d \in {NoneNum, Rat(0, 1), Rat(50000, 1)}}

\* C26: the net check result of a lender stays the same when the deal's
\* property type, charge position, regulated flag, refurbishment flag or
\* borrower deposit changes (wherever the check still runs), and it is a plain
\* pass when the lender's first-charge residential maximum LTV attribute is
\* missing or has no figure.
C26_NetCheckFrame ==
    pc = "done" =>
        \A r \in Range(results_of(out_filter)) :
            r.has_net_check_result =>
                /\ \A e \in frame_variants(in_essentials) :
                       lender_result_of(r.lender, e).has_net_check_result =>
                           lender_result_of(r.lender, e).net_check_result = r.net_check_result
                /\ ~NumTruthy(gross_ltv_of(r.lender)) =>
                       /\ net_class(r.net_check_result) = "pass"
                       /\ r.net_check_result.message = NoneVal

\* a lender the net check excludes, whose check also runs for the same deal as
\* a refurbishment and as a regulated deal, beside the check of a lender
\* without a first-charge figure
C26_Witness ==
    /\ pc = "done"
    /\ \E r \in Range(out_filter.excluded) :
           /\ r.has_net_check_result
           /\ lender_result_of(r.lender,
                  [in_essentials EXCEPT !.is_refurb = ~@]).has_net_check_result
           /\ lender_result_of(r.lender,
                  [in_essentials EXCEPT !.is_regulated = ~@]).has_net_check_result

\* a regulated deal for which the check runs on a lender without a
\* first-charge figure
C26_NoFigureReached ==
    /\ pc = "done"
    /\ \E r \in Range(results_of(out_filter)) :
           r.has_net_check_result /\ ~NumTruthy(gross_ltv_of(r.lender))

----------------------------------------------------------------------------
(* Claims about the leverage and security hints *)

\* the six lever lists of a hint bundle
lever_lists(h) ==
    <<h.shorter_term, h.serviced_interest, h.light_refurb, h.bmv_purchase,
      h.additional_security, h.lower_rate_lender>>

\* a reason that mentions net, insufficient or tight
names_net_problem(reason) ==
    \E word \in {<<"n","e","t">>, <<"i","n","s","u","f","f","i","c","i","e","n","t">>, <<"t","i","g","h","t">>} : Contains(word, lower(reason))

\* some lender of the response is a problem lender
has_problem_lender(response) ==
    \/ \E l \in Range(response.excluded) :
           \E i \in 1..Len(l.exclusion_reasons) : names_net_problem(l.exclusion_reasons[i])
    \/ \E l \in Range(response.eligible) : l.net_ltv_warning \notin {NoneVal, <<>>}

\* C21: when no excluded lender has a net, insufficient or tight reason and no
\* eligible lender carries net_ltv_warning, the six lever lists are empty,
\* summary is null and has_hints is false.
C21_NoProblemNoHints ==
    pc = "done" /\ ~has_problem_lender(out_filter) =>
        /\ \A i \in 1..6 : lever_lists(out_filter.leverage_hints)[i] = <<>>
        /\ out_filter.leverage_hints.summary = NoneVal
        /\ ~out_filter.leverage_hints.has_hints

\* a lender excluded for a reason other than its net advance whose BMV figure
\* lies above its gross figure, so that a lever would have a hint for it
C21_Witness ==
    /\ pc = "done"
    /\ ~has_problem_lender(out_filter)
    /\ \E l \in Range(out_filter.excluded) :
           bmv_purchase_hint(l, in_essentials, out_filter.summary.ltv) # <<>>
    /\ ~out_filter.leverage_hints.has_hints

\* C27: in every result of generate_leverage_hints has_hints is true exactly
\* when summary is non-null and exactly when at least one of the six lever
\* lists is non-empty; the light_refurb list is empty for every refurbishment
\* deal and the additional_security list is empty for every deal whose charge
\* position is not '1st'.
C27_HintsConsistent ==
    pc = "done" =>
        /\ out_filter.leverage_hints.has_hints
               <=> out_filter.leverage_hints.summary # NoneVal
        /\ out_filter.leverage_hints.has_hints
               <=> \E i \in 1..6 : lever_lists(out_filter.leverage_hints)[i] # <<>>
        /\ in_essentials.is_refurb => out_filter.leverage_hints.light_refurb = <<>>
        /\ in_essentials.charge_position # <<"1","s","t">>
               => out_filter.leverage_hints.additional_security = <<>>

\* a refurbishment deal with hints, one of whose problem lenders would get the
\* light refurbishment hint if the deal were not a refurbishment
C27_Witness ==
    /\ pc = "done"
    /\ in_essentials.is_refurb
    /\ out_filter.leverage_hints.has_hints
    /\ \E l \in Range(problem_lenders_of(out_filter.eligible, out_filter.excluded)) :
           lever_hint(l, "light_refurb", [in_essentials EXCEPT !.is_refurb = FALSE],
               out_filter.summary.ltv) # <<>>

\* a deal on a second charge, one of whose problem lenders would get the
\* additional security hint on a first charge
C27_SecondChargeReached ==
    /\ pc = "done"
    /\ in_essentials.charge_position # <<"1","s","t">>
    /\ \E l \in Range(problem_lenders_of(out_filter.eligible, out_filter.excluded)) :
           lever_hint(l, "additional_security",
               [in_essentials EXCEPT !.charge_position = <<"1","s","t">>],
               out_filter.summary.ltv) # <<>>

\* the shorter-term hint of one problem lender when the terms are probed in the
\* order 9 months, 6 months
nine_then_six_hint(l, loan_term, ltv) ==
    LET cands == SelectSeq(<<9, 6>>, LAMBDA t : t < loan_term)
        hit == FirstOf({i \in 1..Len(cands) : term_works(l, cands[i], ltv)})
    IN  IF ~NumTruthy(hint_gross_ltv(l)) \/ hit = 0 THEN <<>>
        ELSE << [name |-> hint_name(l), current_term |-> loan_term,
                 suggested_term |-> cands[hit],
                 note |-> IntToDigits(cands[hit]) \o <<"m"," ","t","e","r","m"," ","c","o","u","l","d"," ","w","o","r","k">>] >>

RECURSIVE nine_then_six_hints(_, _, _, _)
nine_then_six_hints(problem_lenders, k, loan_term, ltv) ==
    IF k = 0 THEN <<>>
    ELSE nine_then_six_hints(problem_lenders, k - 1, loan_term, ltv)
             \o nine_then_six_hint(problem_lenders[k], loan_term, ltv)

\* C22: the shorter_term list holds, for each problem lender in turn, at most
\* one hint: the first of the terms 9 months, 6 months that is shorter than
\* the deal's term and at which the re-estimated net LTV meets the required LTV.
C22_NineThenSix ==
    pc = "done" =>
        out_filter.leverage_hints.shorter_term =
            nine_then_six_hints(problem_lenders_of(out_filter.eligible, out_filter.excluded),
                Len(problem_lenders_of(out_filter.eligible, out_filter.excluded)),
                in_essentials.loan_term_months, out_filter.summary.ltv)

----------------------------------------------------------------------------
(* Claims about the refiner engine *)

facets_in(options) ==
    Range(options.borrower_refiners) \cup Range(options.deal_refiners)
        \cup Range(options.product_refiners)

\* C6: every reported facet has remaining <= current_count <= base_count, and
\* when refiners are added to the active set of a request, current_count and
\* every facet's remaining count are at most what they were before.
C6_CountsShrink ==
    pc = "done" /\ out_options.ok =>
        /\ out_options.current_count <= out_options.base_count
        /\ \A f \in facets_in(out_options) : f.remaining <= out_options.current_count
        /\ prev_options.ok =>
               /\ out_options.base_count = prev_options.base_count
               /\ out_options.current_count <= prev_options.current_count
               /\ \A f \in facets_in(out_options) :
                      \E g \in facets_in(prev_options) :
                          g.key = f.key /\ f.remaining <= g.remaining

\* refiners were added to an answered request, and the answer to the larger
\* set has fewer lenders and a facet with a smaller count than before
C6_Witness ==
    /\ pc = "done" /\ out_options.ok /\ prev_options.ok
    /\ in_essentials.active_refiners # {}
    /\ 0 < out_options.current_count
    /\ out_options.current_count < prev_options.current_count
    /\ out_options.current_count < out_options.base_count
    /\ \E f \in facets_in(out_options) :
           \E g \in facets_in(prev_options) : g.key = f.key /\ f.remaining < g.remaining

\* the lenders left by the active refiners of the answered request
current_eligible_of_request ==
    apply_refiners(apply_knockouts(in_lenders, in_essentials).eligible, in_order).lenders

\* the count the response owes for a check of the table
owed_remaining(c, current_eligible) ==
    IF c.key \in in_essentials.active_refiners THEN out_options.current_count
    ELSE Cardinality({k \in 1..Len(current_eligible) : run_check(c, current_eligible[k]).val})

facet_as_owed(c, current_eligible) ==
    LET shown == {f \in facets_in(out_options) : f.key = c.key}
    IN  /\ shown # {} <=> owed_remaining(c, current_eligible) > 0
        /\ Cardinality(shown) <= 1
        /\ \A f \in shown :
               /\ f.remaining = owed_remaining(c, current_eligible)
               /\ f.active = (c.key \in in_essentials.active_refiners)

\* C24: a facet of the table is in the response if and only if its remaining
\* count is above 0; an active refiner is reported with remaining equal to
\* current_count and active = true, every other one with the count of the
\* lenders it would leave and active = false.
C24_FacetsWithLendersShown ==
    pc = "done" /\ out_options.ok =>
        /\ \A i \in 1..Len(refiner_checks(in_essentials.is_refurb)) :
               facet_as_owed(refiner_checks(in_essentials.is_refurb)[i],
                             current_eligible_of_request)
        /\ \A f \in facets_in(out_options) :
               \E i \in 1..Len(refiner_checks(in_essentials.is_refurb)) :
                   refiner_checks(in_essentials.is_refurb)[i].key = f.key

\* an answer in which the active facet is shown with the current count and
\* the auction facet, which a lender removed by the active refiner would
\* pass, is left out because none of the lenders left passes it
C24_Witness ==
    /\ pc = "done" /\ out_options.ok
    /\ 0 < out_options.current_count
    /\ out_options.current_count < out_options.base_count
    /\ \E f \in facets_in(out_options) : f.active /\ f.remaining = out_options.current_count
    /\ \A f \in facets_in(out_options) : f.key # "auction"
    /\ \E k \in 1..Len(in_lenders) : strip(get(in_lenders[k], col_auction, <<>>)) = <<"2">>

\* the lenders the knockouts leave for the request
eligible_of_request == apply_knockouts(in_lenders, in_essentials).eligible

\* C25: apply_refiners gives the same result whatever the order in which the
\* active refiners are applied, and the remaining count reported for a
\* refiner that is not active is the number of lenders apply_refiners leaves
\* once that refiner is added to the active set.
C25_FacetCountsPredict ==
    pc = "done" =>
        /\ \A order \in Orders(in_essentials.active_refiners) :
               apply_refiners(eligible_of_request, order)
                   = apply_refiners(eligible_of_request, in_order)
        /\ out_options.ok =>
               \A f \in facets_in(out_options) :
                   ~f.active =>
                       \A order \in Orders(in_essentials.active_refiners \cup {f.key}) :
                           /\ apply_refiners(eligible_of_request, order).ok
                           /\ Len(apply_refiners(eligible_of_request, order).lenders)
                                  = f.remaining

\* the keys apply_knockouts adds to a derived copy, lines 505-520
computed_fields ==
    {<<"e","x","c","l","u","s","i","o","n","_","r","e","a","s","o","n","s">>, <<"c","a","l","c","u","l","a","t","e","d","_","l","t","v">>, <<"w","o","r","k","s","_","r","a","t","i","o">>, <<"m","a","x","_","g","r","o","s","s","_","l","t","v">>,
     <<"n","e","t","_","l","t","v","_","w","a","r","n","i","n","g">>, <<"n","e","t","_","l","t","v","_","c","o","m","f","o","r","t","a","b","l","e">>, <<"n","e","t","_","c","h","e","c","k","_","r","e","s","u","l","t">>}

C8_RefinerEngineTotal ==
    pc = "done" => out_options.ok

----------------------------------------------------------------------------
(* Claims about the rate limiter and the chat endpoint *)

\* C28: after any sequence of check_rate_limit calls by any sessions, each
\* session's stored timestamp list has at most RATE_LIMIT (30) entries, no
\* more than 30 calls accepted for one session lie within one hour of each
\* other (of any 31 accepted calls the last is at least an hour after the
\* first), and a call for one session never changes another session's list.
C28_RateLimitBound ==
    /\ [](\A s \in DOMAIN rate_limit_store : Len(rate_limit_store[s]) <= RATE_LIMIT)
    /\ [](\A s \in Sessions :
             \A i \in 1..(Len(accepted[s]) - RATE_LIMIT) :
                 accepted[s][i + RATE_LIMIT] - accepted[s][i] >= Hour)
    /\ [][calls' # calls =>
             \A s \in DOMAIN rate_limit_store :
                 s # out_limit'.session_id =>
                     /\ s \in DOMAIN rate_limit_store'
                     /\ rate_limit_store'[s] = rate_limit_store[s]]_vars

\* a session back at the limit one hour after its oldest call, 31 accepted
\* calls behind it, while the other session's call has just been accepted
C28_Witness ==
    /\ Len(stored(rate_limit_store, "s1")) = RATE_LIMIT
    /\ Len(accepted["s1"]) = RATE_LIMIT + 1
    /\ out_limit = [session_id |-> "s2", allowed |-> TRUE]

\* C29: a rejected check_rate_limit call records no timestamp, and once more
\* than one hour has passed since the oldest of a session's last 30 accepted
\* requests the next call for that session is accepted, however many calls
\* were rejected in between.
C29_RejectedCallsDoNotExtend ==
    [][calls' # calls =>
          /\ ~out_limit'.allowed =>
                 stored(rate_limit_store', out_limit'.session_id)
                     = stored(rate_limit_store, out_limit'.session_id)
          /\ (/\ Len(accepted[out_limit'.session_id]) >= RATE_LIMIT
              /\ clock > Hour + accepted[out_limit'.session_id]
                                    [Len(accepted[out_limit'.session_id]) - RATE_LIMIT + 1])
                 => out_limit'.allowed]_vars

\* a session at the limit is rejected twice and is accepted on its third call,
\* more than an hour after the oldest of its 30 requests
C29_Witness ==
    /\ DOMAIN rate_limit_store = {"s1"}
    /\ calls = 3
    /\ Len(accepted["s1"]) = RATE_LIMIT + 1
    /\ out_limit = [session_id |-> "s1", allowed |-> TRUE]
    /\ clock > Hour + accepted["s1"][1]

\* the request of the last step was answered by the AI service and stored
WasReplied == ~out_chat.rate_limited /\ in_chat.outcome = "replied"

\* C30: the stored conversation history of a session changes only when the AI
\* call succeeds, in which case exactly two messages are appended in the order
\* user message then assistant reply; a rate-limited request, a missing AI
\* client and an AI-service error each return a user-visible message and
\* leave the history unchanged, and a rate-limited request never reaches the
\* AI call.
C30_HistoryChangesOnSuccessOnly ==
    [][calls' # calls =>
          /\ \A s \in Sessions :
                 conversations'[s] # conversations[s] => s = in_chat'.session_id /\ WasReplied'
          /\ WasReplied' =>
                 conversations'[in_chat'.session_id] =
                     conversations[in_chat'.session_id]
                         \o <<message_row("user", in_chat'.message),
                              message_row("assistant", out_chat'.response)>>
          /\ out_chat'.rate_limited =>
                 out_chat'.response = RateLimitMessage /\ ai_calls' = ai_calls
          /\ (~out_chat'.rate_limited
                 /\ in_chat'.outcome \in {"no_client", "ai_raises", "first_save_raises",
                                          "second_save_raises"})
                 => out_chat'.status = 200 /\ out_chat'.response # ""]_vars

\* the same, for the requests whose second write to the conversations table
\* does not fail
C30_WhenSecondSaveSucceeds ==
    [][calls' # calls /\ in_chat'.outcome # "second_save_raises" =>
          /\ \A s \in Sessions :
                 conversations'[s] # conversations[s] => s = in_chat'.session_id /\ WasReplied'
          /\ WasReplied' =>
                 conversations'[in_chat'.session_id] =
                     conversations[in_chat'.session_id]
                         \o <<message_row("user", in_chat'.message),
                              message_row("assistant", out_chat'.response)>>
          /\ out_chat'.rate_limited =>
                 out_chat'.response = RateLimitMessage /\ ai_calls' = ai_calls
          /\ (~out_chat'.rate_limited
                 /\ in_chat'.outcome \in {"no_client", "ai_raises", "first_save_raises"})
                 => out_chat'.status = 200 /\ out_chat'.response # ""]_vars

============================================================================
